---- MODULE Spec2Model ----
(***************************************************************************)
(* SentencePiece (unigram): the piece index (ModelInterface / Model), the  *)
(* segmentation lattice (Lattice), unigram inference (Model::Encode,       *)
(* Model::NBestEncode) and the unigram trainer (Trainer).                  *)
(*                                                                         *)
(* Strings are sequences of byte values.  Vocabulary ids, lattice          *)
(* positions and node ids are 0-based as in the source; a sequence that    *)
(* models a vector v is indexed with v[i + 1].  A float is modelled by an  *)
(* integer (all scores of the models below are integral, so every sum the  *)
(* code forms is exact in binary floating point); FLT_MAX and the infinity *)
(* that FLT_MAX + FLT_MAX rounds to are two large integers.                *)
(***************************************************************************)
EXTENDS Integers, Sequences, FiniteSets, TLC

VARIABLES
    model,      \* unigram::Model: the proto it points to and its index
    lattice,    \* unigram::Lattice of the last Encode / NBestEncode
    op,         \* the last call made on the processor and what it returned
    trainer     \* unigram::Trainer and its TrainerModel

vars == <<model, lattice, op, trainer>>

-----------------------------------------------------------------------------
(* Bounds of the model.                                                    *)

\* longest sentence handed to Encode / NBestEncode, in bytes
MaxLen == 4
\* most pieces of a model proto besides its UNKNOWN piece
MaxPieces == 3
\* longest piece surface, in bytes
MaxPieceLen == 3
\* NORMAL pieces have a score in -MaxCost .. -1
MaxCost == 2
\* NBestEncode is called with nbest_size in 1 .. MaxNBest
MaxNBest == 3
\* number of calls made on one model
MaxCalls == 1
\* most pieces of a proto of the piece index, and the calls made on it
MaxIndexPieces == 3
MaxIndexCalls == 2
\* largest vocab_size of a trainer spec, and most meta pieces
MaxVocabSize == 4
MaxMetaPieces == 2
\* most sentences of a training corpus, longest sentence in bytes, and most
\* E-step/M-step pairs between two prunings
MaxSentences == 2
MaxSentenceLen == 2
MaxSubIterations == 2

-----------------------------------------------------------------------------
(* Program constants.                                                      *)

FLT_MAX == 1000000
FLT_MIN == 0
INF == 2 * FLT_MAX
kUnkPenalty == 10
kMaxAgendaSize == 100000
kMinAgendaSize == 512
NULL == -1
\* scores of the trainer are counted in units of kMinScorePenaltyDelta
\* (0.0001), so that min_score + k * kMinScorePenaltyDelta is exact
kMinScorePenaltyDelta == 1
\* TrainerInterface::kUNKChar, U+2585
kUNKChar == 9605
kSentenceBoundary == 0

\* 'a', 'b' and 0xC3, the lead byte of a two-byte UTF-8 character
Bytes == {97, 98, 195}

Types == {"NORMAL", "UNKNOWN", "CONTROL", "USER_DEFINED", "UNUSED"}

-----------------------------------------------------------------------------
(* Generic helpers.                                                        *)

Max(a, b) == IF a >= b THEN a ELSE b
Min(a, b) == IF a <= b THEN a ELSE b

\* float addition on the modelled range: FLT_MAX absorbs every ordinary
\* value, FLT_MAX + FLT_MAX overflows to +infinity, infinity is absorbing
Fadd(x, y) ==
    IF x >= INF \/ y >= INF \/ x + y >= INF THEN INF
    ELSE IF x >= FLT_MAX \/ y >= FLT_MAX THEN FLT_MAX
    ELSE x + y

\* all byte strings of length 1 .. n
Strings(n) == UNION {[1..k -> Bytes] : k \in 1..n}

IsPrefix(p, s) == Len(p) <= Len(s) /\ SubSeq(s, 1, Len(p)) = p

\* byte-wise lexicographic order of two strings (std::string operator<)
RECURSIVE StrLess(_, _)
StrLess(s, t) ==
    IF t = <<>> THEN FALSE
    ELSE IF s = <<>> THEN TRUE
    ELSE IF Head(s) # Head(t) THEN Head(s) < Head(t)
    ELSE StrLess(Tail(s), Tail(t))

OneCharLen(b) ==
    LET n == b \div 16
    IN  IF n < 12 THEN 1 ELSE IF n < 14 THEN 2 ELSE IF n = 14 THEN 3 ELSE 4

-----------------------------------------------------------------------------
(* ModelInterface: the piece index.                                        *)

\* a PieceToIdMap is a set of [key, value] records with distinct keys
ContainsKey(m, k) == \E e \in m : e.key = k
Lookup(m, k) == (CHOOSE e \in m : e.key = k).value

PieceType(proto, id) == proto[id + 1].type
IsUnknown(proto, id) == PieceType(proto, id) = "UNKNOWN"
IsControl(proto, id) == PieceType(proto, id) = "CONTROL"
IsUnused(proto, id) == PieceType(proto, id) = "UNUSED"
IsUserDefined(proto, id) == PieceType(proto, id) = "USER_DEFINED"
GetScore(proto, id) == proto[id + 1].score
IdToPiece(proto, id) == proto[id + 1].piece

\* the loop of InitializePieces from piece i on; st carries status_, pieces_,
\* reserved_id_map_ and unk_id_, and every error returns at once
RECURSIVE InitializePiecesFrom(_, _, _)
InitializePiecesFrom(proto, i, st) ==
    IF i >= Len(proto) THEN
        IF st.unk_id_ = -1 THEN [st EXCEPT !.status_ = "unk is not defined."]
        ELSE st
    ELSE
        LET sp == proto[i + 1]
            is_normal_piece == sp.type \in {"NORMAL", "USER_DEFINED", "UNUSED"}
            target == IF is_normal_piece THEN st.pieces_ ELSE st.reserved_id_map_
            entry == [key |-> sp.piece, value |-> i]
            st1 == IF is_normal_piece
                   THEN [st EXCEPT !.pieces_ = @ \cup {entry}]
                   ELSE [st EXCEPT !.reserved_id_map_ = @ \cup {entry}]
        IN  IF sp.piece = <<>> THEN
                [st EXCEPT !.status_ = "piece must not be empty."]
            ELSE IF ContainsKey(target, sp.piece) THEN
                [st EXCEPT !.status_ = "is already defined."]
            ELSE IF sp.type = "UNKNOWN" THEN
                IF st1.unk_id_ >= 0
                THEN [st1 EXCEPT !.status_ = "unk is already defined."]
                ELSE InitializePiecesFrom(proto, i + 1, [st1 EXCEPT !.unk_id_ = i])
            ELSE InitializePiecesFrom(proto, i + 1, st1)

InitializePieces(proto) ==
    InitializePiecesFrom(proto, 0,
        [status_ |-> "OK", pieces_ |-> {}, reserved_id_map_ |-> {}, unk_id_ |-> -1])

\* Darts::DoubleArray::commonPrefixSearch: the keys of the trie that are
\* prefixes of text, shortest first, each with its value and byte length
CommonPrefixSearch(trie, text) ==
    LET hit(k) == ContainsKey(trie, SubSeq(text, 1, k))
        F[k \in 0..Len(text)] ==
            IF k = 0 THEN <<>>
            ELSE IF hit(k)
                 THEN Append(F[k - 1],
                             [value |-> Lookup(trie, SubSeq(text, 1, k)), length |-> k])
                 ELSE F[k - 1]
    IN  F[Len(text)]

\* Darts::DoubleArray::exactMatchSearch: the value of the key, -1 on a miss
ExactMatchSearch(trie, key) ==
    IF ContainsKey(trie, key) THEN Lookup(trie, key) ELSE -1

\* BuildTrie with trie_results_size_ the smallest of the counts
BuildTrieSmallestCount(st) ==
    IF st.status_ # "OK" THEN
        st @@ [trie_ |-> {}, trie_results_size_ |-> 0]
    ELSE IF st.pieces_ = {} THEN
        [st EXCEPT !.status_ = "no pieces are loaded."]
            @@ [trie_ |-> {}, trie_results_size_ |-> 0]
    ELSE
        LET trie == st.pieces_
            counts == {Len(CommonPrefixSearch(trie, e.key)) : e \in trie}
            size == CHOOSE n \in counts : \A m \in counts : n <= m
        IN  [st EXCEPT !.pieces_ = {},
                       !.status_ = IF size = 0 THEN "no entry is found in the trie."
                                   ELSE "OK"]
                @@ [trie_ |-> trie, trie_results_size_ |-> size]

\* Model::BuildTrie on the pieces_ collected by InitializePieces
BuildTrie(st) ==
    IF st.status_ # "OK" THEN
        st @@ [trie_ |-> {}, trie_results_size_ |-> 0]
    ELSE IF st.pieces_ = {} THEN
        [st EXCEPT !.status_ = "no pieces are loaded."]
            @@ [trie_ |-> {}, trie_results_size_ |-> 0]
    ELSE
        LET trie == st.pieces_
            counts == {Len(CommonPrefixSearch(trie, e.key)) : e \in trie}
            size == CHOOSE n \in counts : \A m \in counts : m <= n
        IN  [st EXCEPT !.pieces_ = {},
                       !.status_ = IF size = 0 THEN "no entry is found in the trie."
                                   ELSE "OK"]
                @@ [trie_ |-> trie, trie_results_size_ |-> size]

\* the min_score_ / max_score_ loop of Model::Model
RECURSIVE MinScoreFrom(_, _, _)
MinScoreFrom(proto, i, acc) ==
    IF i > Len(proto) THEN acc
    ELSE MinScoreFrom(proto, i + 1,
            IF proto[i].type = "NORMAL" THEN Min(acc, proto[i].score) ELSE acc)

RECURSIVE MaxScoreFrom(_, _, _)
MaxScoreFrom(proto, i, acc) ==
    IF i > Len(proto) THEN acc
    ELSE MaxScoreFrom(proto, i + 1,
            IF proto[i].type = "NORMAL" THEN Max(acc, proto[i].score) ELSE acc)

\* unigram::Model::Model(model_proto)
NewModel(proto) ==
    BuildTrie(InitializePieces(proto))
        @@ [model_proto_ |-> proto,
            min_score_ |-> MinScoreFrom(proto, 1, FLT_MAX),
            max_score_ |-> MaxScoreFrom(proto, 1, FLT_MIN)]

\* PieceToId answering id 0 on a miss, whatever the id of the UNKNOWN piece
PieceToIdZeroOnMiss(m, piece) ==
    IF ContainsKey(m.reserved_id_map_, piece) THEN Lookup(m.reserved_id_map_, piece)
    ELSE LET id == ExactMatchSearch(m.trie_, piece)
         IN  IF id = -1 THEN 0 ELSE id

\* unigram::Model::PieceToId
PieceToId(m, piece) ==
    IF ContainsKey(m.reserved_id_map_, piece) THEN Lookup(m.reserved_id_map_, piece)
    ELSE LET id == ExactMatchSearch(m.trie_, piece)
         IN  IF id = -1 THEN m.unk_id_ ELSE id

-----------------------------------------------------------------------------
(* unigram::Lattice.                                                       *)

\* a Node of a chunk that FreeList has zero-filled
ZeroNode ==
    [piece |-> <<>>, pos |-> 0, length |-> 0, node_id |-> 0, id |-> 0,
     score |-> 0, backtrace_score |-> 0, prev |-> NULL]

EmptyLattice ==
    [sentence_ |-> <<>>, surface_ |-> <<>>, nodes |-> <<>>,
     begin_nodes_ |-> <<>>, end_nodes_ |-> <<>>]

\* Lattice::size
LatticeSize(lat) == Max(0, Len(lat.surface_) - 1)

\* Lattice::surface: the byte offset at which character pos begins
Surface(lat, pos) == lat.surface_[pos + 1]

\* the loop of SetSentence that records where each character begins
RECURSIVE SurfaceFrom(_, _, _)
SurfaceFrom(sentence, off, acc) ==
    IF off >= Len(sentence) THEN Append(acc, off)
    ELSE LET mblen == Min(OneCharLen(sentence[off + 1]), Len(sentence) - off)
         IN  SurfaceFrom(sentence, off + mblen, Append(acc, off))

\* Lattice::NewNode: the next element of the allocator, zero-filled
NewNode(lat) == [ZeroNode EXCEPT !.node_id = Len(lat.nodes)]

\* Lattice::SetSentence
SetSentence(sentence) ==
    LET surface == SurfaceFrom(sentence, 0, <<>>)
        len == Max(0, Len(surface) - 1)
        cleared == EmptyLattice
        bos == [NewNode(cleared) EXCEPT !.id = -1, !.pos = 0]
        lat1 == [cleared EXCEPT !.nodes = <<bos>>]
        eos == [NewNode(lat1) EXCEPT !.id = -1, !.pos = len]
    IN  [sentence_ |-> sentence,
         surface_ |-> surface,
         nodes |-> <<bos, eos>>,
         begin_nodes_ |-> [i \in 1..(len + 1) |->
                              IF i = len + 1 THEN <<eos.node_id>> ELSE <<>>],
         end_nodes_ |-> [i \in 1..(len + 1) |->
                              IF i = 1 THEN <<bos.node_id>> ELSE <<>>]]

\* Insert with the piece taken as length bytes, not length characters
InsertByteLength(lat, pos, length, id, score) ==
    LET node == [NewNode(lat) EXCEPT
                    !.pos = pos, !.length = length,
                    !.piece = SubSeq(lat.sentence_, Surface(lat, pos) + 1,
                                     Surface(lat, pos) + length),
                    !.id = id, !.score = score]
    IN  [lat EXCEPT !.nodes = Append(@, node),
                    !.begin_nodes_[pos + 1] = Append(@, node.node_id),
                    !.end_nodes_[pos + length + 1] = Append(@, node.node_id)]

\* Lattice::Insert followed by the caller's node->id = id; node->score = score
Insert(lat, pos, length, id, score) ==
    LET node == [NewNode(lat) EXCEPT
                    !.pos = pos, !.length = length,
                    !.piece = SubSeq(lat.sentence_, Surface(lat, pos) + 1,
                                     Surface(lat, pos + length)),
                    !.id = id, !.score = score]
    IN  [lat EXCEPT !.nodes = Append(@, node),
                    !.begin_nodes_[pos + 1] = Append(@, node.node_id),
                    !.end_nodes_[pos + length + 1] = Append(@, node.node_id)]

\* the inner loop of Viterbi with the comparison turned round
RECURSIVE BestLeftWorst(_, _, _, _, _, _)
BestLeftWorst(nodes, lseq, j, rscore, best_node, best_score) ==
    IF j > Len(lseq) THEN [node |-> best_node, score |-> best_score]
    ELSE LET lnode == lseq[j]
             score == Fadd(nodes[lnode + 1].backtrace_score, rscore)
         IN  IF best_node = NULL \/ score < best_score
             THEN BestLeftWorst(nodes, lseq, j + 1, rscore, lnode, score)
             ELSE BestLeftWorst(nodes, lseq, j + 1, rscore, best_node, best_score)

\* the inner loop of Viterbi over end_nodes_[pos]: the first lnode with the
\* largest lnode->backtrace_score + rnode->score
RECURSIVE BestLeft(_, _, _, _, _, _)
BestLeft(nodes, lseq, j, rscore, best_node, best_score) ==
    IF j > Len(lseq) THEN [node |-> best_node, score |-> best_score]
    ELSE LET lnode == lseq[j]
             score == Fadd(nodes[lnode + 1].backtrace_score, rscore)
         IN  IF best_node = NULL \/ score > best_score
             THEN BestLeft(nodes, lseq, j + 1, rscore, lnode, score)
             ELSE BestLeft(nodes, lseq, j + 1, rscore, best_node, best_score)

\* the forward pass of Viterbi from the k-th node of begin_nodes_[pos] on;
\* ok is FALSE when a node has no predecessor (the early return)
RECURSIVE ViterbiForward(_, _, _, _)
ViterbiForward(lat, nodes, pos, k) ==
    IF pos > LatticeSize(lat) THEN [nodes |-> nodes, ok |-> TRUE]
    ELSE IF k > Len(lat.begin_nodes_[pos + 1]) THEN
        ViterbiForward(lat, nodes, pos + 1, 1)
    ELSE
        LET rnode == lat.begin_nodes_[pos + 1][k]
            cleared == [nodes EXCEPT ![rnode + 1].prev = NULL]
            best == BestLeft(cleared, lat.end_nodes_[pos + 1], 1,
                             cleared[rnode + 1].score, NULL, 0)
        IN  IF best.node = NULL THEN [nodes |-> cleared, ok |-> FALSE]
            ELSE ViterbiForward(lat,
                    [cleared EXCEPT ![rnode + 1].prev = best.node,
                                    ![rnode + 1].backtrace_score = best.score],
                    pos, k + 1)

\* the backtrace loop of Viterbi: the nodes from node back to BOS, exclusive
RECURSIVE Backtrace(_, _, _)
Backtrace(nodes, node, results) ==
    IF nodes[node + 1].prev = NULL THEN results
    ELSE Backtrace(nodes, nodes[node + 1].prev, Append(results, node))

Reverse(s) == [i \in 1..Len(s) |-> s[Len(s) + 1 - i]]

\* the backtrace of Viterbi after the forward pass fwd
ViterbiBacktrace(lat, fwd) ==
    LET eos == lat.begin_nodes_[LatticeSize(lat) + 1][1]
    IN  IF ~fwd.ok THEN [lat |-> [lat EXCEPT !.nodes = fwd.nodes],
                         results |-> <<>>, ok |-> FALSE]
        ELSE [lat |-> [lat EXCEPT !.nodes = fwd.nodes],
              results |-> Reverse(Backtrace(fwd.nodes, fwd.nodes[eos + 1].prev, <<>>)),
              ok |-> TRUE]

\* Lattice::Viterbi: the lattice with prev and backtrace_score filled in,
\* and the best path as node ids
Viterbi(lat) == ViterbiBacktrace(lat, ViterbiForward(lat, lat.nodes, 0, 1))

-----------------------------------------------------------------------------
(* unigram::Model: populating the lattice, Encode.                         *)

\* get_chars_length of PopulateNodes: the characters from begin_pos up to
\* the first character boundary at or after byte offset end
RECURSIVE GetCharsLength(_, _, _, _)
GetCharsLength(lat, begin_pos, pos, end) ==
    IF Surface(lat, pos) < end THEN GetCharsLength(lat, begin_pos, pos + 1, end)
    ELSE pos - begin_pos

\* the loop of PopulateNodes taking a match of any length for a
\* single-character node
RECURSIVE InsertResultsAnyLength(_, _, _, _, _, _)
InsertResultsAnyLength(m, lat, begin_pos, trie_results, k, has_single_node) ==
    IF k > Len(trie_results) THEN [lat |-> lat, has_single_node |-> has_single_node]
    ELSE
        LET begin == Surface(lat, begin_pos)
            length == GetCharsLength(lat, begin_pos, begin_pos,
                                     begin + trie_results[k].length)
            id == trie_results[k].value
            score == IF IsUserDefined(m.model_proto_, id)
                     THEN Fadd(length * m.max_score_, 1)
                     ELSE GetScore(m.model_proto_, id)
        IN  IF IsUnused(m.model_proto_, id)
            THEN InsertResultsAnyLength(m, lat, begin_pos, trie_results, k + 1,
                                        has_single_node)
            ELSE InsertResultsAnyLength(m, Insert(lat, begin_pos, length, id, score),
                                        begin_pos, trie_results, k + 1, TRUE)

\* the loop of PopulateNodes over the trie results of one begin_pos
RECURSIVE InsertResults(_, _, _, _, _, _)
InsertResults(m, lat, begin_pos, trie_results, k, has_single_node) ==
    IF k > Len(trie_results) THEN [lat |-> lat, has_single_node |-> has_single_node]
    ELSE
        LET begin == Surface(lat, begin_pos)
            length == GetCharsLength(lat, begin_pos, begin_pos,
                                     begin + trie_results[k].length)
            id == trie_results[k].value
            score == IF IsUserDefined(m.model_proto_, id)
                     THEN Fadd(length * m.max_score_, 1)
                     ELSE GetScore(m.model_proto_, id)
        IN  IF IsUnused(m.model_proto_, id)
            THEN InsertResults(m, lat, begin_pos, trie_results, k + 1, has_single_node)
            ELSE InsertResults(m, Insert(lat, begin_pos, length, id, score),
                               begin_pos, trie_results, k + 1,
                               has_single_node \/ length = 1)

\* the end of one round of PopulateNodes: the UNK node when the trie
\* results ins gave no node of one character
InsertUnknown(m, begin_pos, ins) ==
    IF ins.has_single_node THEN ins.lat
    ELSE Insert(ins.lat, begin_pos, 1, m.unk_id_, Fadd(m.min_score_, -kUnkPenalty))

\* Model::PopulateNodes from begin_pos on; ok is FALSE when
\* CHECK_LT(num_nodes, trie_results.size()) fails
RECURSIVE PopulateNodesFrom(_, _, _)

\* one round of PopulateNodes, on the trie results of begin_pos
PopulateNodesAt(m, lat, begin_pos, trie_results) ==
    IF ~(Len(trie_results) < m.trie_results_size_ + 1)
    THEN [lat |-> lat, ok |-> FALSE]
    ELSE PopulateNodesFrom(m,
             InsertUnknown(m, begin_pos,
                           InsertResults(m, lat, begin_pos, trie_results, 1, FALSE)),
             begin_pos + 1)

PopulateNodesFrom(m, lat, begin_pos) ==
    IF begin_pos >= LatticeSize(lat) THEN [lat |-> lat, ok |-> TRUE]
    ELSE PopulateNodesAt(m, lat, begin_pos,
             CommonPrefixSearch(m.trie_,
                 SubSeq(lat.sentence_, Surface(lat, begin_pos) + 1, Len(lat.sentence_))))

PopulateNodes(m, lat) == PopulateNodesFrom(m, lat, 0)

\* the (piece, id) pairs of a path of node ids
PathPieces(lat, path) ==
    [i \in 1..Len(path) |->
        [piece |-> lat.nodes[path[i] + 1].piece, id |-> lat.nodes[path[i] + 1].id]]

\* what Encode returns on the populated lattice pop and its Viterbi pass
EncodeResults(pop, vit) ==
    IF ~pop.ok THEN [lat |-> pop.lat, path |-> <<>>, results |-> <<>>,
                     viterbi_ok |-> TRUE, ok |-> FALSE]
    ELSE [lat |-> vit.lat, path |-> vit.results,
          results |-> PathPieces(vit.lat, vit.results),
          viterbi_ok |-> vit.ok, ok |-> TRUE]

\* Encode from lattice.Viterbi() on
EncodeViterbi(pop) == EncodeResults(pop, Viterbi(pop.lat))

\* Model::Encode: the lattice it built, the pieces it returns, and whether
\* the call ran to its end (FALSE when the CHECK of PopulateNodes aborts)
Encode(m, normalized) ==
    IF m.status_ # "OK" \/ normalized = <<>> THEN
        [lat |-> EmptyLattice, path |-> <<>>, results |-> <<>>,
         viterbi_ok |-> TRUE, ok |-> TRUE]
    ELSE EncodeViterbi(PopulateNodes(m, SetSentence(normalized)))

-----------------------------------------------------------------------------
(* Lattice::NBest.  A Hypothesis is a record [node, next, fx, gx]; hyps is *)
(* the hypothesis allocator and a hypothesis is named by its index in it.  *)
(* The agenda is the array of a std::priority_queue ordered by             *)
(* HypothesisComparator: a binary max-heap on fx, kept with push_heap and  *)
(* pop_heap as the GNU C++ library implements them, which fixes the order  *)
(* in which hypotheses of equal fx are popped.                             *)

Fx(hyps, h) == hyps[h + 1].fx

\* the comparator of a min-heap: the smallest fx on top
HypothesisComparatorReversed(hyps, h1, h2) == Fx(hyps, h1) > Fx(hyps, h2)

\* HypothesisComparator
HypothesisComparator(hyps, h1, h2) == Fx(hyps, h1) < Fx(hyps, h2)

\* std::__push_heap: move value up from holeIndex towards the root
RECURSIVE PushHeap(_, _, _, _)
PushHeap(hyps, heap, holeIndex, value) ==
    IF holeIndex > 0
       /\ HypothesisComparator(hyps, heap[((holeIndex - 1) \div 2) + 1], value)
    THEN PushHeap(hyps,
                  [heap EXCEPT ![holeIndex + 1] = heap[((holeIndex - 1) \div 2) + 1]],
                  (holeIndex - 1) \div 2, value)
    ELSE [heap EXCEPT ![holeIndex + 1] = value]

\* agenda.push(hyp)
AgendaPush(hyps, agenda, hyp) == PushHeap(hyps, Append(agenda, hyp), Len(agenda), hyp)

\* the loop of std::__adjust_heap: move the hole down along the larger child
RECURSIVE AdjustDown(_, _, _, _)
AdjustDown(hyps, heap, holeIndex, len) ==
    IF holeIndex < (len - 1) \div 2 THEN
        LET right == 2 * (holeIndex + 1)
            child == IF HypothesisComparator(hyps, heap[right + 1], heap[right])
                     THEN right - 1 ELSE right
        IN  AdjustDown(hyps, [heap EXCEPT ![holeIndex + 1] = heap[child + 1]], child, len)
    ELSE [heap |-> heap, holeIndex |-> holeIndex]

\* the step of std::__adjust_heap for a last node with one child
AdjustLast(down, len) ==
    IF len % 2 = 0 /\ down.holeIndex = (len - 2) \div 2
    THEN [heap |-> [down.heap EXCEPT ![down.holeIndex + 1] =
                        down.heap[2 * (down.holeIndex + 1)]],
          holeIndex |-> 2 * (down.holeIndex + 1) - 1]
    ELSE down

\* the std::__push_heap that ends std::__adjust_heap
AdjustPush(hyps, last, value) == PushHeap(hyps, last.heap, last.holeIndex, value)

\* std::__adjust_heap
AdjustHeap(hyps, heap, len, value) ==
    AdjustPush(hyps, AdjustLast(AdjustDown(hyps, heap, 0, len), len), value)

\* agenda.pop(): std::pop_heap, then pop_back
AgendaPop(hyps, agenda) ==
    IF Len(agenda) <= 1 THEN <<>>
    ELSE AdjustHeap(hyps, SubSeq(agenda, 1, Len(agenda) - 1),
                    Len(agenda) - 1, agenda[Len(agenda)])

\* the nodes of a finished hypothesis, from top->next to the one before EOS
RECURSIVE HypPath(_, _, _)
HypPath(hyps, n, acc) ==
    IF hyps[n + 1].next = NULL THEN acc
    ELSE HypPath(hyps, hyps[n + 1].next, Append(acc, hyps[n + 1].node))

\* the expansion loop of NBest over end_nodes(node->pos)
RECURSIVE Expand(_, _, _, _, _, _)
Expand(lat, hyps, agenda, top, lseq, j) ==
    IF j > Len(lseq) THEN [hyps |-> hyps, agenda |-> agenda]
    ELSE
        LET lnode == lat.nodes[lseq[j] + 1]
            hyp == [node |-> lseq[j],
                    next |-> top,
                    fx |-> Fadd(lnode.backtrace_score, hyps[top + 1].gx),
                    gx |-> Fadd(lnode.score, hyps[top + 1].gx)]
            hyps1 == Append(hyps, hyp)
        IN  Expand(lat, hyps1, AgendaPush(hyps1, agenda, Len(hyps)), top, lseq, j + 1)

\* the agenda shrinking of NBest: the top size hypotheses, re-pushed
RECURSIVE ShrinkAgenda(_, _, _, _)
ShrinkAgenda(hyps, agenda, new_agenda, size) ==
    IF size = 0 THEN new_agenda
    ELSE ShrinkAgenda(hyps, AgendaPop(hyps, agenda),
                      AgendaPush(hyps, new_agenda, agenda[1]), size - 1)

\* the while loop of NBest
RECURSIVE NBestLoop(_, _, _, _, _)

\* NBest returning with the first finished hypothesis
NBestFinishedAtOnce(lat, hyps, popped, results, nbest_size) == results

\* the loop of NBest after a finished hypothesis was added to the results
NBestFinished(lat, hyps, popped, results, nbest_size) ==
    IF Len(results) = nbest_size THEN results
    ELSE NBestLoop(lat, hyps, popped, results, nbest_size)

\* the loop of NBest after the expansion exp of the top hypothesis
NBestExpanded(lat, exp, results, nbest_size) ==
    NBestLoop(lat, exp.hyps,
              IF Len(exp.agenda) >= kMaxAgendaSize
              THEN ShrinkAgenda(exp.hyps, exp.agenda, <<>>,
                                Min(kMinAgendaSize, nbest_size * 10))
              ELSE exp.agenda,
              results, nbest_size)

\* one round of the loop of NBest, top being popped off the agenda
NBestTop(lat, hyps, top, popped, results, nbest_size) ==
    LET node == hyps[top + 1].node
        bos_node == lat.end_nodes_[1][1]
    IN  IF node = bos_node
        THEN NBestFinished(lat, hyps, popped,
                           Append(results, HypPath(hyps, hyps[top + 1].next, <<>>)),
                           nbest_size)
        ELSE NBestExpanded(lat,
                           Expand(lat, hyps, popped, top,
                                  lat.end_nodes_[lat.nodes[node + 1].pos + 1], 1),
                           results, nbest_size)

NBestLoop(lat, hyps, agenda, results, nbest_size) ==
    IF agenda = <<>> THEN results
    ELSE NBestTop(lat, hyps, agenda[1], AgendaPop(hyps, agenda), results, nbest_size)

\* NBest after its Viterbi pass vit
NBestSearch(lat, vit, nbest_size) ==
    LET eos_node == lat.begin_nodes_[LatticeSize(lat) + 1][1]
        eos == [node |-> eos_node, next |-> NULL,
                fx |-> lat.nodes[eos_node + 1].score,
                gx |-> lat.nodes[eos_node + 1].score]
    IN  IF nbest_size < 1 THEN [lat |-> lat, results |-> <<>>]
        ELSE IF nbest_size = 1 THEN [lat |-> vit.lat, results |-> <<vit.results>>]
        ELSE [lat |-> vit.lat,
              results |-> NBestLoop(vit.lat, <<eos>>, <<0>>, <<>>, nbest_size)]

\* Lattice::NBest: the lattice after its Viterbi pass and the paths returned
NBest(lat, nbest_size) == NBestSearch(lat, Viterbi(lat), nbest_size)

\* the score += node->score loop of NBestEncode
RECURSIVE PathScore(_, _, _, _)
PathScore(lat, path, i, score) ==
    IF i > Len(path) THEN score
    ELSE PathScore(lat, path, i + 1, Fadd(score, lat.nodes[path[i] + 1].score))

\* what NBestEncode returns on the populated lattice pop and its NBest nb
NBestEncodeResults(pop, nb) ==
    IF ~pop.ok THEN [lat |-> pop.lat, paths |-> <<>>, results |-> <<>>, ok |-> FALSE]
    ELSE [lat |-> nb.lat,
          paths |-> nb.results,
          results |-> [i \in 1..Len(nb.results) |->
                          [pieces |-> PathPieces(nb.lat, nb.results[i]),
                           score |-> PathScore(nb.lat, nb.results[i], 1, 0)]],
          ok |-> TRUE]

\* NBestEncode from lattice.NBest(nbest_size) on
NBestEncodeNBest(pop, nbest_size) == NBestEncodeResults(pop, NBest(pop.lat, nbest_size))

\* Model::NBestEncode
NBestEncode(m, normalized, nbest_size) ==
    IF m.status_ # "OK" \/ normalized = <<>> THEN
        [lat |-> EmptyLattice, paths |-> <<>>,
         results |-> <<[pieces |-> <<>>, score |-> 0]>>, ok |-> TRUE]
    ELSE NBestEncodeNBest(PopulateNodes(m, SetSentence(normalized)),
                          Max(1, Min(nbest_size, 1024)))

-----------------------------------------------------------------------------
(* The inference state machine: a unigram Model built from a proto, then   *)
(* calls of Encode, NBestEncode and PieceToId on it.                       *)

\* the alphabets models and sentences are drawn over: 'a' alone, 'a' and
\* 'b', 'a' and the lead byte 0xC3 of a two-byte character
Alphabets == {{97}, {97, 98}, {97, 195}}

\* strings over alphabet A of length 1 .. n - (|A| - 1): every further
\* letter of the alphabet costs one unit of length
StringsOver(A, n) == UNION {[1..k -> A] : k \in 1..(n - (Cardinality(A) - 1))}

\* the surface of the UNKNOWN piece, "<"
UnkSurface == <<60>>

UnkPiece == [piece |-> UnkSurface, score |-> 0, type |-> "UNKNOWN"]

\* what a piece of the trie can be: NORMAL with a score, USER_DEFINED, UNUSED
PieceKinds ==
    [type : {"NORMAL"}, score : {-c : c \in 1..MaxCost}]
        \cup [type : {"USER_DEFINED", "UNUSED"}, score : {-1}]

\* the strings of set S as a sequence in byte-wise ascending order
RECURSIVE SortedSeq(_)
SortedSeq(S) ==
    IF S = {} THEN <<>>
    ELSE LET least == CHOOSE s \in S : \A t \in S : t = s \/ StrLess(s, t)
         IN  <<least>> \o SortedSeq(S \ {least})

\* the proto with the UNKNOWN piece at id 0 and the pieces of S after it
MakeProto(S, kind) ==
    LET keys == SortedSeq(S)
    IN  <<UnkPiece>> \o
        [i \in 1..Len(keys) |->
            [piece |-> keys[i], score |-> kind[keys[i]].score, type |-> kind[keys[i]].type]]

\* the protos over alphabet A: pieces of at most MaxPieceLen bytes less one
\* per further letter, at most MaxPieces of them less one per lead byte
ProtosOver(A) ==
    UNION { {MakeProto(S, kind) : kind \in [S -> PieceKinds]} :
            S \in {T \in SUBSET StringsOver(A, MaxPieceLen) :
                      Cardinality(T) \in
                          1..(MaxPieces - Cardinality({b \in A : OneCharLen(b) > 1}))} }

Protos == UNION {ProtosOver(A) : A \in Alphabets}

\* the bytes of the pieces of a proto, the UNKNOWN piece aside
Letters(proto) ==
    UNION {{proto[i].piece[j] : j \in 1..Len(proto[i].piece)} : i \in 2..Len(proto)}

\* the sentences a model is called with: the empty one and those over an
\* alphabet that holds the letters of the model
Sentences(proto) ==
    {<<>>} \cup UNION {StringsOver(A, MaxLen) :
                         A \in {B \in Alphabets : Letters(proto) \subseteq B}}

NoOp ==
    [name |-> "none", input |-> <<>>, nbest_size |-> 0, path |-> <<>>,
     pieces |-> <<>>, viterbi_ok |-> TRUE, paths |-> <<>>, nbest |-> <<>>,
     ret |-> 0, ok |-> TRUE, calls |-> 0, after |-> "none"]

NoTrainer == [pc |-> "idle"]

\* the loop of PopulateSentencePieceText that counts the normalized bytes
\* the pieces of an EncodeResult consume
RECURSIVE Consumed(_, _, _, _)
Consumed(proto, result, i, consumed) ==
    IF i > Len(result) THEN consumed
    ELSE Consumed(proto, result, i + 1,
                  IF IsControl(proto, result[i].id) THEN consumed
                  ELSE consumed + Len(result[i].piece))

Init ==
    /\ \E proto \in Protos : model = NewModel(proto)
    /\ lattice = EmptyLattice
    /\ op = NoOp
    /\ trainer = NoTrainer

\* the state after a call of Encode that returned r
EncodeReturns(normalized, r) ==
    /\ lattice' = r.lat
    /\ op' = [NoOp EXCEPT !.name = "Encode", !.input = normalized,
                          !.path = r.path, !.pieces = r.results,
                          !.viterbi_ok = r.viterbi_ok, !.ok = r.ok,
                          !.calls = op.calls + 1]
    /\ UNCHANGED <<model, trainer>>

\* model_->Encode(normalized)
DoEncode(normalized) ==
    /\ op.ok /\ op.calls < MaxCalls
    /\ EncodeReturns(normalized, Encode(model, normalized))

\* the state after a call of NBestEncode that returned r
NBestEncodeReturns(normalized, nbest_size, r) ==
    /\ lattice' = r.lat
    /\ op' = [NoOp EXCEPT !.name = "NBestEncode", !.input = normalized,
                          !.nbest_size = nbest_size, !.paths = r.paths,
                          !.nbest = r.results, !.ok = r.ok,
                          !.calls = op.calls + 1]
    /\ UNCHANGED <<model, trainer>>

\* model_->NBestEncode(normalized, nbest_size)
DoNBestEncode(normalized, nbest_size) ==
    /\ op.ok /\ op.calls < MaxCalls
    /\ NBestEncodeReturns(normalized, nbest_size,
                          NBestEncode(model, normalized, nbest_size))

Next ==
    \/ \E s \in Sentences(model.model_proto_) : DoEncode(s)
    \/ \E s \in Sentences(model.model_proto_), k \in 1..MaxNBest :
          DoNBestEncode(s, k)

Spec == Init /\ [][Next]_vars

-----------------------------------------------------------------------------
(* The piece index state machine: a Model built from any proto, then calls *)
(* of SetVocabulary, ResetVocabulary and PieceToId on it.                  *)

\* the surfaces of the pieces of an index proto: none, "a", "ab"
IndexSurfaces == {<<>>, <<97>>, <<97, 98>>}

\* protos of 1 .. MaxIndexPieces pieces of any type and surface
IndexProtos ==
    UNION {[1..n -> [piece : IndexSurfaces, score : {-1}, type : Types]] :
              n \in 1..MaxIndexPieces}

\* the strings PieceToId is asked for, and those a vocabulary is made of
IndexQueries == {<<97>>, <<97, 98>>, <<98>>}

\* SetVocabulary that leaves the pieces outside the vocabulary as they are
SetVocabularyKeepsAll(proto, vocab) ==
    [i \in 1..Len(proto) |->
        IF proto[i].type \in {"CONTROL", "UNKNOWN", "USER_DEFINED"} THEN proto[i]
        ELSE IF proto[i].piece \in vocab
                \/ OneCharLen(proto[i].piece[1]) = Len(proto[i].piece)
             THEN [proto[i] EXCEPT !.type = "NORMAL"]
             ELSE proto[i]]

\* the loop of SentencePieceProcessor::SetVocabulary over the pieces
SetVocabulary(proto, vocab) ==
    [i \in 1..Len(proto) |->
        IF proto[i].type \in {"CONTROL", "UNKNOWN", "USER_DEFINED"} THEN proto[i]
        ELSE IF proto[i].piece \in vocab
                \/ OneCharLen(proto[i].piece[1]) = Len(proto[i].piece)
             THEN [proto[i] EXCEPT !.type = "NORMAL"]
             ELSE [proto[i] EXCEPT !.type = "UNUSED"]]

\* ResetVocabulary making every piece NORMAL
ResetVocabularyOfAll(proto) ==
    [i \in 1..Len(proto) |-> [proto[i] EXCEPT !.type = "NORMAL"]]

\* the loop of SentencePieceProcessor::ResetVocabulary over the pieces
ResetVocabulary(proto) ==
    [i \in 1..Len(proto) |->
        IF proto[i].type = "UNUSED" THEN [proto[i] EXCEPT !.type = "NORMAL"]
        ELSE proto[i]]

InitIndex ==
    /\ \E proto \in IndexProtos : model = NewModel(proto)
    /\ lattice = EmptyLattice
    /\ op = NoOp
    /\ trainer = NoTrainer

\* a call is made when status() is OK, and MaxIndexCalls bounds the calls
CanCall == model.status_ = "OK" /\ op.calls < MaxIndexCalls

\* SentencePieceProcessor::SetVocabulary(valid_vocab)
DoSetVocabulary(valid_vocab) ==
    /\ CanCall
    /\ model' = [model EXCEPT !.model_proto_ = SetVocabulary(@, valid_vocab)]
    /\ op' = [NoOp EXCEPT !.name = "SetVocabulary", !.calls = op.calls + 1,
                          !.after = op.name]
    /\ UNCHANGED <<lattice, trainer>>

\* SentencePieceProcessor::ResetVocabulary()
DoResetVocabulary ==
    /\ CanCall
    /\ model' = [model EXCEPT !.model_proto_ = ResetVocabulary(@)]
    /\ op' = [NoOp EXCEPT !.name = "ResetVocabulary", !.calls = op.calls + 1,
                          !.after = op.name]
    /\ UNCHANGED <<lattice, trainer>>

\* model_->PieceToId(piece)
DoPieceToId(piece) ==
    /\ CanCall
    /\ op' = [NoOp EXCEPT !.name = "PieceToId", !.input = piece,
                          !.ret = PieceToId(model, piece),
                          !.calls = op.calls + 1, !.after = op.name]
    /\ UNCHANGED <<model, lattice, trainer>>

NextIndex ==
    \/ \E v \in SUBSET IndexQueries : DoSetVocabulary(v)
    \/ DoResetVocabulary
    \/ \E s \in IndexQueries : DoPieceToId(s)

SpecIndex == InitIndex /\ [][NextIndex]_vars

-----------------------------------------------------------------------------
(* The trainer: Sorted, TrainerModel::SetSentencePieces and                *)
(* Trainer::FinalizeSentencePieces.  A vector of pairs is a sequence of    *)
(* [first, second] records.                                                *)

\* string_util::EncodeUTF8 by way of UnicodeCharToUTF8
UnicodeCharToUTF8(c) ==
    IF c <= 127 THEN <<c>>
    ELSE IF c <= 2047 THEN <<192 + (c \div 64), 128 + (c % 64)>>
    ELSE LET d == IF c > 1114111 THEN 65533 ELSE c
         IN  IF d <= 65535
             THEN <<224 + (d \div 4096), 128 + ((d \div 64) % 64), 128 + (d % 64)>>
             ELSE <<240 + (d \div 262144), 128 + ((d \div 4096) % 64),
                    128 + ((d \div 64) % 64), 128 + (d % 64)>>

\* the comparator of Sorted on pairs with string keys: value descending,
\* then key ascending
SortedLess(p1, p2) ==
    p1.second > p2.second \/ (p1.second = p2.second /\ StrLess(p1.first, p2.first))

\* the comparator of Sorted with the values in ascending order
SortedLessNumberAscending(p1, p2) ==
    p1.second < p2.second \/ (p1.second = p2.second /\ p1.first < p2.first)

\* the comparator of Sorted on pairs with number keys (code points)
SortedLessNumber(p1, p2) ==
    p1.second > p2.second \/ (p1.second = p2.second /\ p1.first < p2.first)

\* v without its i-th element
Without(v, i) == SubSeq(v, 1, i - 1) \o SubSeq(v, i + 1, Len(v))

\* Sorted of trainer_interface.h on pairs with string keys: value
\* descending, then key ascending
RECURSIVE Sorted(_)
Sorted(v) ==
    IF v = <<>> THEN <<>>
    ELSE LET i == CHOOSE i \in 1..Len(v) :
                      /\ \A j \in 1..Len(v) : ~SortedLess(v[j], v[i])
                      /\ \A j \in 1..(i - 1) : SortedLess(v[i], v[j])
         IN  <<v[i]>> \o Sorted(Without(v, i))

\* Sorted on pairs with number keys (code points, indexes)
RECURSIVE SortedNumber(_)
SortedNumber(v) ==
    IF v = <<>> THEN <<>>
    ELSE LET i == CHOOSE i \in 1..Len(v) :
                      /\ \A j \in 1..Len(v) : ~SortedLessNumber(v[j], v[i])
                      /\ \A j \in 1..(i - 1) : SortedLessNumber(v[i], v[j])
         IN  <<v[i]>> \o SortedNumber(Without(v, i))

\* the pairs of an unordered_map, in some order of iteration
RECURSIVE MapPairs(_)
MapPairs(m) ==
    IF m = {} THEN <<>>
    ELSE LET e == CHOOSE e \in m : TRUE
         IN  <<[first |-> e.key, second |-> e.value]>> \o MapPairs(m \ {e})

\* m[k] = v
MapPut(m, k, v) == {e \in m : e.key # k} \cup {[key |-> k, value |-> v]}

\* the unordered_map built from a range of pairs: the first of equal keys
RECURSIVE MapOfPairs(_, _, _)
MapOfPairs(v, i, m) ==
    IF i > Len(v) THEN m
    ELSE MapOfPairs(v, i + 1,
                    IF ContainsKey(m, v[i].first) THEN m
                    ELSE MapPut(m, v[i].first, v[i].second))

RECURSIVE MinSecond(_, _, _)
MinSecond(v, i, acc) ==
    IF i > Len(v) THEN acc ELSE MinSecond(v, i + 1, Min(acc, v[i].second))

\* TrainerModel::SetSentencePieces: the model rebuilt on the pieces; piece i
\* has id i, and unk_id_ keeps the 0 it is declared with
SetSentencePieces(sentencepieces) ==
    BuildTrie([status_ |-> "OK",
               pieces_ |-> {[key |-> sentencepieces[i].first, value |-> i - 1] :
                               i \in 1..Len(sentencepieces)},
               reserved_id_map_ |-> {},
               unk_id_ |-> 0])
        @@ [sentencepieces_ |-> sentencepieces,
            model_proto_ |-> [i \in 1..Len(sentencepieces) |->
                                 [piece |-> sentencepieces[i].first,
                                  score |-> sentencepieces[i].second,
                                  type |-> "NORMAL"]],
            min_score_ |-> MinSecond(sentencepieces, 1, FLT_MAX),
            max_score_ |-> 0]

\* the first loop of FinalizeSentencePieces, from the i-th required
\* character on: final_sentencepieces after it
RECURSIVE FinalizeRequired(_, _, _, _, _, _)
FinalizeRequired(required, i, sp, min_score, final, min_score_penalty) ==
    IF i > Len(required) THEN final
    ELSE LET s == UnicodeCharToUTF8(required[i].first)
         IN  IF ContainsKey(sp, s)
             THEN FinalizeRequired(required, i + 1, sp, min_score,
                                   MapPut(final, s, Lookup(sp, s)), min_score_penalty)
             ELSE FinalizeRequired(required, i + 1, sp, min_score,
                                   MapPut(final, s, min_score + min_score_penalty),
                                   min_score_penalty + kMinScorePenaltyDelta)

\* the second loop of FinalizeSentencePieces, from the i-th piece of the
\* sorted sentencepieces on
RECURSIVE FinalizeKeep(_, _, _, _)
FinalizeKeep(sorted, i, vocab_size_size, final) ==
    IF i > Len(sorted) THEN final
    ELSE IF ContainsKey(final, sorted[i].first)
         THEN FinalizeKeep(sorted, i + 1, vocab_size_size, final)
    ELSE IF vocab_size_size = Cardinality(final) THEN final
    ELSE FinalizeKeep(sorted, i + 1, vocab_size_size,
                      MapPut(final, sorted[i].first, sorted[i].second))

\* Trainer::FinalizeSentencePieces; CHECK_GT(vocab_size_size, 0) aborts
FinalizeSentencePieces(m, required_chars, vocab_size, meta_pieces) ==
    LET sentencepieces == m.sentencepieces_
        sp == MapOfPairs(sentencepieces, 1, {})
        required == FinalizeRequired(SortedNumber(MapPairs(required_chars)), 1, sp,
                                     m.min_score_, {}, 0)
        vocab_size_size == vocab_size - meta_pieces
    IN  IF vocab_size_size > 0
        THEN [ok |-> TRUE,
              pieces |-> Sorted(MapPairs(FinalizeKeep(Sorted(sentencepieces), 1,
                                                      vocab_size_size, required)))]
        ELSE [ok |-> FALSE, pieces |-> <<>>]

-----------------------------------------------------------------------------
(* The finalizer state machine: FinalizeSentencePieces on any trained      *)
(* model, for any required characters and trainer spec.                    *)

\* the pieces of a model being finalized: "a", "b", "é", "ab"
FinalizeSurfaces == {<<97>>, <<98>>, <<195, 169>>, <<97, 98>>}

\* their scores, -2.0 and -1.9999 in units of kMinScorePenaltyDelta
FinalizeScores == {-20000, -19999}

\* the code points of required characters: a, b, é
FinalizeChars == {97, 98, 233}

\* the counts of required characters
FinalizeCounts == {1, 2}

\* the non-empty maps from keys to values
MapsOver(keys, values) ==
    UNION {{{[key |-> k, value |-> f[k]] : k \in K} : f \in [K -> values]} :
              K \in SUBSET keys \ {{}}}

\* a Trainer about to do step pc of Train
NewTrainer(pc, sentences, required_chars, vocab_size, meta_pieces, num_sub_iterations) ==
    [pc |-> pc, sentences_ |-> sentences, required_chars_ |-> required_chars,
     vocab_size |-> vocab_size, meta_pieces_ |-> meta_pieces,
     num_sub_iterations |-> num_sub_iterations, desired_vocab_size_ |-> 0,
     iter |-> 0, expected |-> <<>>, final_pieces_ |-> <<>>,
     seed_sentencepiece_size |-> 1000000, max_sentencepiece_length |-> 16]

InitFinalize ==
    /\ \E pieces \in MapsOver(FinalizeSurfaces, FinalizeScores) :
           model = SetSentencePieces(MapPairs(pieces))
    /\ \E required_chars \in MapsOver(FinalizeChars, FinalizeCounts),
          vocab_size \in 1..MaxVocabSize, meta_pieces \in 1..MaxMetaPieces :
           trainer = NewTrainer("finalize", <<>>, required_chars, vocab_size,
                                meta_pieces, 1)
    /\ lattice = EmptyLattice
    /\ op = NoOp

\* the state after FinalizeSentencePieces returned r
FinalizeReturns(r) ==
    trainer' = [trainer EXCEPT !.pc = IF r.ok THEN "done" ELSE "aborted",
                               !.final_pieces_ = r.pieces]

\* final_pieces_ = FinalizeSentencePieces(model), the last step of Train
DoFinalize ==
    /\ trainer.pc = "finalize"
    /\ FinalizeReturns(FinalizeSentencePieces(model, trainer.required_chars_,
                                              trainer.vocab_size, trainer.meta_pieces_))
    /\ UNCHANGED <<model, lattice, op>>

NextFinalize == DoFinalize

SpecFinalize == InitFinalize /\ [][NextFinalize]_vars

-----------------------------------------------------------------------------
(* Trainer::Train: the seed, the E and M steps, pruning.  Scores are in    *)
(* units of kMinScorePenaltyDelta; log and Digamma are tabulated at the    *)
(* whole numbers, the only arguments they get in this development.         *)

\* string_util::IsValidCodepoint
IsValidCodepoint(c) == c < 55296 \/ (c >= 57344 /\ c <= 1114111)

\* string_util::IsTrailByte
IsTrailByte(x) == x >= 128 /\ x < 192

\* string_util::DecodeUTF8: the character at the head of s and the bytes
\* it takes; kUnicodeError and one byte on invalid input
DecodeUTF8(s) ==
    LET len == Len(s)
        cp2 == (s[1] % 32) * 64 + (s[2] % 64)
        cp3 == (s[1] % 16) * 4096 + (s[2] % 64) * 64 + (s[3] % 64)
        cp4 == (s[1] % 8) * 262144 + (s[2] % 64) * 4096 + (s[3] % 64) * 64 + (s[4] % 64)
        invalid == [c |-> 65533, mblen |-> 1]
    IN  IF s[1] < 128 THEN [c |-> s[1], mblen |-> 1]
        ELSE IF len >= 2 /\ s[1] \div 32 = 6 THEN
            IF IsTrailByte(s[2]) /\ cp2 >= 128 /\ IsValidCodepoint(cp2)
            THEN [c |-> cp2, mblen |-> 2] ELSE invalid
        ELSE IF len >= 3 /\ s[1] \div 16 = 14 THEN
            IF IsTrailByte(s[2]) /\ IsTrailByte(s[3]) /\ cp3 >= 2048
               /\ IsValidCodepoint(cp3)
            THEN [c |-> cp3, mblen |-> 3] ELSE invalid
        ELSE IF len >= 4 /\ s[1] \div 8 = 30 THEN
            IF IsTrailByte(s[2]) /\ IsTrailByte(s[3]) /\ IsTrailByte(s[4])
               /\ cp4 >= 65536 /\ IsValidCodepoint(cp4)
            THEN [c |-> cp4, mblen |-> 4] ELSE invalid
        ELSE invalid

\* string_util::UTF8ToUnicodeText
RECURSIVE UTF8ToUnicodeText(_)
UTF8ToUnicodeText(utf8) ==
    IF utf8 = <<>> THEN <<>>
    ELSE LET d == DecodeUTF8(utf8)
         IN  <<d.c>> \o UTF8ToUnicodeText(SubSeq(utf8, d.mblen + 1, Len(utf8)))

\* 10000 * log(n) for n = 1 .. 128
LogTable ==
    <<0, 6931, 10986, 13863, 16094, 17918, 19459, 20794, 21972, 23026, 23979,
      24849, 25649, 26391, 27081, 27726, 28332, 28904, 29444, 29957, 30445,
      30910, 31355, 31781, 32189, 32581, 32958, 33322, 33673, 34012, 34340,
      34657, 34965, 35264, 35553, 35835, 36109, 36376, 36636, 36889, 37136,
      37377, 37612, 37842, 38067, 38286, 38501, 38712, 38918, 39120, 39318,
      39512, 39703, 39890, 40073, 40254, 40431, 40604, 40775, 40943, 41109,
      41271, 41431, 41589, 41744, 41897, 42047, 42195, 42341, 42485, 42627,
      42767, 42905, 43041, 43175, 43307, 43438, 43567, 43694, 43820, 43944,
      44067, 44188, 44308, 44427, 44543, 44659, 44773, 44886, 44998, 45109,
      45218, 45326, 45433, 45539, 45643, 45747, 45850, 45951, 46052, 46151,
      46250, 46347, 46444, 46540, 46634, 46728, 46821, 46913, 47005, 47095,
      47185, 47274, 47362, 47449, 47536, 47622, 47707, 47791, 47875, 47958,
      48040, 48122, 48203, 48283, 48363, 48442, 48520>>

Log(n) == LogTable[n]

\* 10000 * Digamma(n) for n = 1 .. 32, by the series of Digamma
DigammaTable ==
    <<-5772, 4228, 9228, 12561, 15061, 17061, 18728, 20156, 21406, 22518, 23518,
      24427, 25260, 26029, 26743, 27410, 28035, 28623, 29179, 29705, 30205,
      30681, 31136, 31571, 31987, 32387, 32772, 33142, 33500, 33844, 34178, 34500>>

Digamma(x) == DigammaTable[x]

RECURSIVE SumSecond(_, _, _)
SumSecond(v, i, acc) ==
    IF i > Len(v) THEN acc ELSE SumSecond(v, i + 1, acc + v[i].second)

\* ToLogProb
ToLogProb(v) ==
    LET logsum == Log(SumSecond(v, 1, 0))
    IN  [i \in 1..Len(v) |-> [v[i] EXCEPT !.second = Log(@) - logsum]]

\* all_chars[UnicodeCharToUTF8(c)] += freq over the characters of text
RECURSIVE CountChars(_, _, _, _)
CountChars(text, i, freq, all_chars) ==
    IF i > Len(text) THEN all_chars
    ELSE LET c == text[i]
             s == UnicodeCharToUTF8(c)
             old == IF ContainsKey(all_chars, s) THEN Lookup(all_chars, s) ELSE 0
         IN  CountChars(text, i + 1, freq,
                        IF c # kUNKChar /\ c # kSentenceBoundary
                        THEN MapPut(all_chars, s, old + freq) ELSE all_chars)

\* the first loop of MakeSeedSentencePieces, from sentence i on
RECURSIVE AllChars(_, _, _)
AllChars(sentences, i, all_chars) ==
    IF i > Len(sentences) THEN all_chars
    ELSE AllChars(sentences, i + 1,
                  CountChars(UTF8ToUnicodeText(sentences[i].first), 1,
                             sentences[i].second, all_chars))

\* the array the suffix array is made of: the sentences, each followed by
\* kSentenceBoundary
RECURSIVE SuffixArrayText(_, _)
SuffixArrayText(sentences, i) ==
    IF i > Len(sentences) THEN <<>>
    ELSE UTF8ToUnicodeText(sentences[i].first) \o <<kSentenceBoundary>>
             \o SuffixArrayText(sentences, i + 1)

\* the substrings of more than one character and without a sentence
\* boundary that begin at two places of the array: what the internal nodes
\* of the suffix tree with D > 1 stand for
RepeatedSubstrings(array) ==
    {w \in {SubSeq(array, i, j) : i \in 1..Len(array), j \in 1..Len(array)} :
        /\ Len(w) > 1
        /\ \A k \in 1..Len(w) : w[k] # kSentenceBoundary
        /\ \E i, j \in 1..(Len(array) - Len(w) + 1) :
               i # j /\ SubSeq(array, i, i + Len(w) - 1) = w
                     /\ SubSeq(array, j, j + Len(w) - 1) = w}

\* the places of the array where w stands
Occurrences(array, w) ==
    {i \in 1..(Len(array) - Len(w) + 1) : SubSeq(array, i, i + Len(w) - 1) = w}

\* the strings of the internal nodes i of the suffix tree of the array that
\* pass the tests on D[i] and on kSentenceBoundary: w is one when it stands
\* at two places or more and is not followed by the same character at all of
\* them (the array ends with a boundary, so w is followed by one everywhere)
InternalNodes(array) ==
    {w \in {SubSeq(array, i, j) : i \in 1..Len(array), j \in 1..Len(array)} :
        /\ Len(w) > 1
        /\ \A k \in 1..Len(w) : w[k] # kSentenceBoundary
        /\ \E i, j \in Occurrences(array, w) : array[i + Len(w)] # array[j + Len(w)]}

\* the orders in which esaxx may number these nodes
NodeNumberings(array) ==
    LET N == InternalNodes(array)
    IN  {v \in [1..Cardinality(N) -> N] :
            \A i, j \in 1..Cardinality(N) : i # j => v[i] # v[j]}

\* string_util::UnicodeTextToUTF8
RECURSIVE UnicodeTextToUTF8(_)
UnicodeTextToUTF8(uw) ==
    IF uw = <<>> THEN <<>>
    ELSE UnicodeCharToUTF8(uw[1]) \o UnicodeTextToUTF8(SubSeq(uw, 2, Len(uw)))

\* the loop of MakeSeedSentencePieces over the internal nodes, from node i
\* on: substr_index, with score = freq * len for the nodes of valid pieces,
\* which for pieces of letters are those of at most
\* max_sentencepiece_length characters
RECURSIVE SubstrIndex(_, _, _, _)
SubstrIndex(array, nodes, max_sentencepiece_length, i) ==
    IF i > Len(nodes) THEN <<>>
    ELSE (IF Len(nodes[i]) > max_sentencepiece_length THEN <<>>
          ELSE <<[first |-> i,
                  second |-> Cardinality(Occurrences(array, nodes[i])) * Len(nodes[i])]>>)
             \o SubstrIndex(array, nodes, max_sentencepiece_length, i + 1)

\* the loop of MakeSeedSentencePieces over Sorted(substr_index), from its
\* k-th pair on: it breaks when the size is seed_sentencepiece_size
RECURSIVE AddSubstrings(_, _, _, _, _)
AddSubstrings(nodes, sorted, k, seed_sentencepiece_size, seed_sentencepieces) ==
    IF k > Len(sorted) \/ Len(seed_sentencepieces) = seed_sentencepiece_size
    THEN seed_sentencepieces
    ELSE AddSubstrings(nodes, sorted, k + 1, seed_sentencepiece_size,
             Append(seed_sentencepieces,
                    [first |-> UnicodeTextToUTF8(nodes[sorted[k].first]),
                     second |-> sorted[k].second]))

\* Trainer::MakeSeedSentencePieces, nodes being the strings of the internal
\* nodes in the order esaxx numbers them: the characters, sorted, then the
\* substrings, sorted, all with their log probabilities
MakeSeedSentencePieces(sentences, seed_sentencepiece_size, max_sentencepiece_length, nodes) ==
    ToLogProb(AddSubstrings(nodes,
                            SortedNumber(SubstrIndex(SuffixArrayText(sentences, 1), nodes,
                                                     max_sentencepiece_length, 1)),
                            1, seed_sentencepiece_size,
                            Sorted(MapPairs(AllChars(sentences, 1, {})))))

\* Lattice::PopulateMarginal on a lattice of one path, where the marginal
\* probability exp(alpha + score + beta - Z) of every node is 1: freq is
\* added to expected[node->id] for every node that is not BOS or EOS
PopulateMarginal(lat, freq, expected) ==
    [k \in 1..Len(expected) |->
        expected[k] + freq * Cardinality({n \in 1..Len(lat.nodes) :
                                             /\ lat.nodes[n].id = k - 1
                                             /\ lat.nodes[n].length > 0})]

\* the loop of RunEStep over the sentences, from sentence i on
RECURSIVE RunEStepFrom(_, _, _, _)
RunEStepFrom(m, sentences, i, expected) ==
    IF i > Len(sentences) THEN expected
    ELSE LET pop == PopulateNodes(m, SetSentence(sentences[i].first))
         IN  RunEStepFrom(m, sentences, i + 1,
                          PopulateMarginal(pop.lat, sentences[i].second, expected))

\* Trainer::RunEStep: the expected count of every piece
RunEStep(m, sentences) ==
    RunEStepFrom(m, sentences, 1, [k \in 1..Len(m.sentencepieces_) |-> 0])

\* the first loop of RunMStep with its test turned around
RECURSIVE InfrequentPieces(_, _, _)
InfrequentPieces(sentencepieces, expected, i) ==
    IF i > Len(expected) THEN <<>>
    ELSE (IF 2 * expected[i] >= 1 THEN <<>>
          ELSE <<[first |-> sentencepieces[i].first, second |-> expected[i] + 1]>>)
             \o InfrequentPieces(sentencepieces, expected, i + 1)

\* the first loop of RunMStep: the pieces of expected count
\* >= kExpectedFrequencyThreshold (0.5), with that count
RECURSIVE FrequentPieces(_, _, _)
FrequentPieces(sentencepieces, expected, i) ==
    IF i > Len(expected) THEN <<>>
    ELSE (IF 2 * expected[i] < 1 THEN <<>>
          ELSE <<[first |-> sentencepieces[i].first, second |-> expected[i]]>>)
             \o FrequentPieces(sentencepieces, expected, i + 1)

\* Trainer::RunMStep
RunMStep(m, expected) ==
    LET new_sentencepieces == FrequentPieces(m.sentencepieces_, expected, 1)
        sum == SumSecond(new_sentencepieces, 1, 0)
    IN  [i \in 1..Len(new_sentencepieces) |->
            [new_sentencepieces[i] EXCEPT !.second = Digamma(@) - Digamma(sum)]]

\* the ids of the nodes of a path
NodeIds(lat, path) == [k \in 1..Len(path) |-> lat.nodes[path[k] + 1].id]

\* always_keep[i] and alternatives[i] by the result nb of NBest(2) on the
\* lattice of piece i
AlternativesOf(nb) ==
    IF Len(nb.results) = 1 THEN [always_keep |-> TRUE, alternatives |-> <<>>]
    ELSE IF Len(nb.results[1]) >= 2 THEN [always_keep |-> FALSE, alternatives |-> <<>>]
    ELSE IF Len(nb.results[1]) = 1
         THEN [always_keep |-> TRUE, alternatives |-> NodeIds(nb.lat, nb.results[2])]
    ELSE [always_keep |-> TRUE, alternatives |-> <<>>]

\* the first loop of PruneSentencePieces for piece i
Alternatives(m, i) ==
    AlternativesOf(NBest(PopulateNodes(m, SetSentence(m.sentencepieces_[i].first)).lat, 2))

\* the ids of the Viterbi path vit, those of pieces (node->id >= 0)
ViterbiIds(vit) == NodeIds(vit.lat, vit.results)

\* freqs[id] += w.second and inverteds[id].push_back(i) for the ids of the
\* Viterbi path of a sentence of weight w; inverted[id] is kept as the sum
\* of the weights of its sentences, all it is used for
AddCounts(acc, w, ids) ==
    LET hits(k) == Cardinality({j \in 1..Len(ids) : ids[j] = k - 1})
    IN  [freq |-> [k \in 1..Len(acc.freq) |-> acc.freq[k] + hits(k) * w],
         inverted |-> [k \in 1..Len(acc.freq) |-> acc.inverted[k] + hits(k) * w],
         vsum |-> acc.vsum + w]

\* the second loop of PruneSentencePieces, from sentence i on: freq and
\* inverted of every piece, by the Viterbi path of every sentence
RECURSIVE ViterbiCounts(_, _, _, _)
ViterbiCounts(m, sentences, i, acc) ==
    IF i > Len(sentences) THEN acc
    ELSE ViterbiCounts(m, sentences, i + 1,
             AddCounts(acc, sentences[i].second,
                       ViterbiIds(Viterbi(PopulateNodes(m,
                                      SetSentence(sentences[i].first)).lat))))

\* sum over alternatives[i] of log(freq[n] + freq[i]) - logsum_alt
RECURSIVE LogProbAlt(_, _, _, _, _)
LogProbAlt(alternatives, k, freq, freq_i, logsum_alt) ==
    IF k > Len(alternatives) THEN 0
    ELSE Log(freq[alternatives[k] + 1] + freq_i) - logsum_alt
             + LogProbAlt(alternatives, k + 1, freq, freq_i, logsum_alt)

\* the body of the third loop of PruneSentencePieces for piece i: dropped,
\* kept at once, or made a candidate with its loss
PrunePiece(m, counts, sum, i, acc, alt) ==
    LET freq == counts.freq
        logsum_alt == Log(sum + freq[i] * (Len(m.sentencepieces_) - 1))
        logprob_sp == Log(freq[i]) - Log(sum)
        logprob_alt == LogProbAlt(alt.alternatives, 1, freq, freq[i], logsum_alt)
        loss == (counts.inverted[i] * (logprob_sp - logprob_alt)) \div counts.vsum
    IN  IF freq[i] = 0 \/ ~alt.always_keep THEN acc
        ELSE IF alt.alternatives = <<>>
        THEN [acc EXCEPT !.new_sentencepieces = Append(@, m.sentencepieces_[i])]
        ELSE [acc EXCEPT !.candidates = Append(@, [first |-> i - 1, second |-> loss])]

\* the third loop of PruneSentencePieces, from piece i on
RECURSIVE PruneLoop(_, _, _, _, _)
PruneLoop(m, counts, sum, i, acc) ==
    IF i > Len(m.sentencepieces_) THEN acc
    ELSE PruneLoop(m, counts, sum, i + 1,
                   PrunePiece(m, counts, sum, i, acc, Alternatives(m, i)))

\* the last loop of PruneSentencePieces: candidates are added until the
\* size is exactly pruned_size
RECURSIVE AddCandidates(_, _, _, _, _)
AddCandidates(sentencepieces, sorted, k, pruned_size, new_sentencepieces) ==
    IF k > Len(sorted) \/ Len(new_sentencepieces) = pruned_size
    THEN new_sentencepieces
    ELSE AddCandidates(sentencepieces, sorted, k + 1, pruned_size,
                       Append(new_sentencepieces, sentencepieces[sorted[k].first + 1]))

\* shrinking_factor * size as an int, shrinking_factor being 0.75
ShrinkBy(size) == (3 * size) \div 4

\* std::accumulate
RECURSIVE Accumulate(_, _, _)
Accumulate(v, i, acc) == IF i > Len(v) THEN acc ELSE Accumulate(v, i + 1, acc + v[i])

\* PruneSentencePieces from pruned_size on
PruneKept(m, desired_vocab_size, kept) ==
    AddCandidates(m.sentencepieces_, SortedNumber(kept.candidates), 1,
                  Max(desired_vocab_size, ShrinkBy(Len(m.sentencepieces_))),
                  kept.new_sentencepieces)

\* PruneSentencePieces from its third loop on
PruneCounted(m, desired_vocab_size, counts) ==
    PruneKept(m, desired_vocab_size,
              PruneLoop(m, counts, Accumulate(counts.freq, 1, 0), 1,
                        [new_sentencepieces |-> <<>>, candidates |-> <<>>]))

\* Trainer::PruneSentencePieces
PruneSentencePieces(m, sentences, desired_vocab_size) ==
    PruneCounted(m, desired_vocab_size,
                 ViterbiCounts(m, sentences, 1,
                               [freq |-> [k \in 1..Len(m.sentencepieces_) |-> 0],
                                inverted |-> [k \in 1..Len(m.sentencepieces_) |-> 0],
                                vsum |-> 0]))

-----------------------------------------------------------------------------
(* The training state machine: Train on a corpus, one step at a time.      *)

\* the characters of a training corpus: a, b, c
TrainChars == {97, 98, 99}

\* the weights of its sentences
TrainFrequencies == {1, 2}

\* the corpora: 1 .. MaxSentences distinct sentences of 1 .. MaxSentenceLen
\* characters, each with a weight, in which no substring of more than one
\* character repeats
TrainCorpora ==
    LET strings == UNION {[1..k -> TrainChars] : k \in 1..MaxSentenceLen}
        sets == {S \in SUBSET strings : Cardinality(S) \in 1..MaxSentences}
        corpus(S, f) == LET keys == SortedSeq(S)
                        IN  [i \in 1..Len(keys) |->
                                [first |-> keys[i], second |-> f[keys[i]]]]
    IN  {c \in UNION {{corpus(S, f) : f \in [S -> TrainFrequencies]} : S \in sets} :
            RepeatedSubstrings(SuffixArrayText(c, 1)) = {}}

\* the required_chars_ the loader leaves: the count of every character of
\* the corpus
RequiredChars(sentences) ==
    {[key |-> DecodeUTF8(e.key).c, value |-> e.value] : e \in AllChars(sentences, 1, {})}

\* a TrainerModel as its constructor leaves it
NewTrainerModel ==
    [status_ |-> "OK", pieces_ |-> {}, reserved_id_map_ |-> {}, unk_id_ |-> 0,
     trie_ |-> {}, trie_results_size_ |-> 0, sentencepieces_ |-> <<>>,
     model_proto_ |-> <<>>, min_score_ |-> 0, max_score_ |-> 0]

\* a vocab_size past the number of pieces of any model of the corpora, for
\* which 1.1 * vocab_size has a fraction and a whole part larger than vocab_size
LargeVocabSize == 11

\* 1.1 * vocab_size rounded up
DesiredVocabSizeRoundedUp(vocab_size) == (vocab_size * 11 + 9) \div 10

\* static_cast<size_t>(trainer_spec_.vocab_size() * 1.1): the conversion
\* drops the fraction of the double, which is 11 * vocab_size / 10 to within
\* less than 1e-9
DesiredVocabSize(vocab_size) == (vocab_size * 11) \div 10

InitTrain ==
    /\ model = NewTrainerModel
    /\ \E sentences \in TrainCorpora,
          vocab_size \in (1..MaxVocabSize) \cup {LargeVocabSize},
          meta_pieces \in 1..MaxMetaPieces,
          num_sub_iterations \in 1..MaxSubIterations :
           trainer = NewTrainer("seed", sentences, RequiredChars(sentences),
                                vocab_size, meta_pieces, num_sub_iterations)
    /\ lattice = EmptyLattice
    /\ op = NoOp

\* Train up to its loop: the seed pieces and desired_vocab_size_
DoSeed ==
    /\ trainer.pc = "seed"
    /\ \E nodes \in NodeNumberings(SuffixArrayText(trainer.sentences_, 1)) :
          model' = SetSentencePieces(
                       MakeSeedSentencePieces(trainer.sentences_,
                                              trainer.seed_sentencepiece_size,
                                              trainer.max_sentencepiece_length, nodes))
    /\ trainer' = [trainer EXCEPT !.pc = "estep", !.iter = 0,
                       !.desired_vocab_size_ = DesiredVocabSize(trainer.vocab_size)]
    /\ UNCHANGED <<lattice, op>>

\* expected = RunEStep(model, ...)
DoEStep ==
    /\ trainer.pc = "estep"
    /\ trainer' = [trainer EXCEPT !.pc = "mstep",
                       !.expected = RunEStep(model, trainer.sentences_)]
    /\ UNCHANGED <<model, lattice, op>>

\* the state after RunMStep returned new_sentencepieces
MStepReturns(new_sentencepieces) ==
    IF new_sentencepieces = <<>>
    THEN /\ trainer' = [trainer EXCEPT !.pc = "aborted"]
         /\ UNCHANGED model
    ELSE /\ model' = SetSentencePieces(new_sentencepieces)
         /\ trainer' = [trainer EXCEPT
                           !.pc = IF trainer.iter + 1 < trainer.num_sub_iterations
                                  THEN "estep" ELSE "check",
                           !.iter = trainer.iter + 1, !.expected = <<>>]

\* model.SetSentencePieces(RunMStep(model, expected)) and the end of one
\* sub-iteration; CHECK(!sentencepieces_.empty()) aborts
DoMStep ==
    /\ trainer.pc = "mstep"
    /\ MStepReturns(RunMStep(model, trainer.expected))
    /\ UNCHANGED <<lattice, op>>

\* if (model.GetPieceSize() <= desired_vocab_size_) break;
DoCheckSize ==
    /\ trainer.pc = "check"
    /\ trainer' = [trainer EXCEPT
                      !.pc = IF Len(model.sentencepieces_) <= trainer.desired_vocab_size_
                             THEN "finalize" ELSE "prune"]
    /\ UNCHANGED <<model, lattice, op>>

\* the state after PruneSentencePieces returned new_sentencepieces
PruneReturns(new_sentencepieces) ==
    IF new_sentencepieces = <<>>
    THEN /\ trainer' = [trainer EXCEPT !.pc = "aborted"]
         /\ UNCHANGED model
    ELSE /\ model' = SetSentencePieces(new_sentencepieces)
         /\ trainer' = [trainer EXCEPT !.pc = "estep", !.iter = 0]

\* model.SetSentencePieces(PruneSentencePieces(model)) and the next round
DoPrune ==
    /\ trainer.pc = "prune"
    /\ PruneReturns(PruneSentencePieces(model, trainer.sentences_,
                                        trainer.desired_vocab_size_))
    /\ UNCHANGED <<lattice, op>>

NextTrain ==
    \/ DoSeed
    \/ DoEStep
    \/ DoMStep
    \/ DoCheckSize
    \/ DoPrune
    \/ DoFinalize

SpecTrain == InitTrain /\ [][NextTrain]_vars

\* Train has a step to take
TrainRunning == trainer.pc \in {"seed", "estep", "mstep", "check", "prune", "finalize"}

\* Train runs on, a step that can be taken is taken: weak fairness of
\* NextTrain, written out with TrainRunning for ENABLED <<NextTrain>>_vars,
\* which it equals in every state of SpecTrain
SpecTrainFair ==
    /\ SpecTrain
    /\ WF_vars(DoCheckSize)
    /\ ([]<>(~TrainRunning) \/ []<><<NextTrain>>_vars)

-----------------------------------------------------------------------------
(* Properties of Encode and NBestEncode, checked under Spec.               *)

RECURSIVE ConcatPieces(_, _)
ConcatPieces(pieces, i) ==
    IF i > Len(pieces) THEN <<>>
    ELSE pieces[i].piece \o ConcatPieces(pieces, i + 1)

\* every full segmentation of the lattice from character pos on: the chains
\* of abutting nodes that end at the last character
RECURSIVE PathsFrom(_, _)
PathsFrom(lat, pos) ==
    IF pos >= LatticeSize(lat) THEN {<<>>}
    ELSE UNION {{<<lat.begin_nodes_[pos + 1][k]>> \o p :
                    p \in PathsFrom(lat, pos + lat.nodes[lat.begin_nodes_[pos + 1][k] + 1].length)} :
                k \in 1..Len(lat.begin_nodes_[pos + 1])}

EncodeDone == op.name = "Encode" /\ op.ok /\ op.input # <<>>
NBestDone == op.name = "NBestEncode" /\ op.ok /\ op.input # <<>>

\* C1: the pieces Encode returns, concatenated in output order, are the
\* normalized input byte for byte, and the count of consumed bytes that
\* PopulateSentencePieceText compares with the input's size equals it.
C1_EncodeCoversInput ==
    EncodeDone =>
        /\ ConcatPieces(op.pieces, 1) = op.input
        /\ Consumed(model.model_proto_, op.pieces, 1, 0) = Len(op.input)

\* C1 happens: an input of several characters, one of them a two-byte
\* character that only an UNK node covers
C1_Witness ==
    /\ EncodeDone
    /\ Len(op.pieces) >= 2
    /\ \E i \in 1..Len(op.pieces) :
          op.pieces[i].id = model.unk_id_ /\ Len(op.pieces[i].piece) = 2

\* C2: the score of the path Viterbi returns is at least the score of every
\* full segmentation of the lattice, and the path is one of them.
C2_ViterbiOptimal ==
    EncodeDone =>
        /\ op.path \in PathsFrom(lattice, 0)
        /\ \A p \in PathsFrom(lattice, 0) :
              PathScore(lattice, op.path, 1, 0) >= PathScore(lattice, p, 1, 0)

\* C2 happens: a lattice with three segmentations or more, of which one
\* scores strictly less than the Viterbi path and one is longer than it
C2_Witness ==
    /\ EncodeDone
    /\ Cardinality(PathsFrom(lattice, 0)) >= 3
    /\ \E p \in PathsFrom(lattice, 0) :
          PathScore(lattice, p, 1, 0) < PathScore(lattice, op.path, 1, 0)
    /\ \E p \in PathsFrom(lattice, 0) :
          /\ Len(p) < Len(op.path)
          /\ PathScore(lattice, p, 1, 0) < PathScore(lattice, op.path, 1, 0)

\* C3: after SetSentence and PopulateNodes every character position has a
\* node that begins there and one that ends there, and Viterbi does not
\* take its "Failed to find the best path" return.
C3_EveryPositionHasNode ==
    (op.name \in {"Encode", "NBestEncode"} /\ op.ok /\ op.input # <<>>) =>
        /\ LatticeSize(lattice) >= 1
        /\ \A pos \in 0..(LatticeSize(lattice) - 1) :
              lattice.begin_nodes_[pos + 1] # <<>>
        /\ \A pos \in 0..LatticeSize(lattice) :
              lattice.end_nodes_[pos + 1] # <<>>
        /\ op.viterbi_ok
        /\ op.name = "Encode" => op.path # <<>>

\* C3 happens: a character whose only piece is UNUSED gets an UNK node as
\* its only node
C3_Witness ==
    /\ EncodeDone
    /\ \E pos \in 0..(LatticeSize(lattice) - 1) :
          /\ Len(lattice.begin_nodes_[pos + 1]) = 1
          /\ lattice.nodes[lattice.begin_nodes_[pos + 1][1] + 1].id = model.unk_id_
          /\ \E i \in 1..Len(model.model_proto_) :
                /\ model.model_proto_[i].type = "UNUSED"
                /\ model.model_proto_[i].piece =
                       lattice.nodes[lattice.begin_nodes_[pos + 1][1] + 1].piece

\* the paths of the lattice whose score is at least score
PathsScoring(lat, score) ==
    {p \in PathsFrom(lat, 0) : PathScore(lat, p, 1, 0) >= score}

NonIncreasing(nbest) ==
    \A i \in 1..(Len(nbest) - 1) : nbest[i].score >= nbest[i + 1].score

\* C4, as the code has it: the scores of the paths NBest returns are
\* non-increasing, the first path is a full segmentation with the score of
\* the Viterbi path, and it is the Viterbi path itself when nbest_size is 1
\* or no other path has that score.
C4_NBestOrdered ==
    NBestDone =>
        LET viterbi == Viterbi(lattice).results
            best == PathScore(lattice, viterbi, 1, 0)
        IN  /\ Len(op.nbest) >= 1
            /\ NonIncreasing(op.nbest)
            /\ op.nbest[1].score = best
            /\ op.paths[1] \in PathsFrom(lattice, 0)
            /\ (op.nbest_size = 1 \/ Cardinality(PathsScoring(lattice, best)) = 1)
                   => op.paths[1] = viterbi

\* C4 happens: three paths returned, the first two with equal scores and
\* the third with a smaller one
C4_Witness ==
    /\ NBestDone
    /\ Len(op.nbest) = 3
    /\ op.nbest[1].score = op.nbest[2].score
    /\ op.nbest[2].score > op.nbest[3].score

\* C4 as stated: the first path NBest returns is the node sequence Viterbi
\* returns, also when several paths have equal scores.
C4_NBestFirstIsViterbi ==
    NBestDone =>
        /\ NonIncreasing(op.nbest)
        /\ op.paths[1] = Viterbi(lattice).results
        /\ op.nbest[1].score = PathScore(lattice, Viterbi(lattice).results, 1, 0)

\* C28: for every populated lattice and every k >= 2 for which the agenda
\* stays below 100000 entries, NBest(k) returns exactly min(k, P) paths,
\* where P is the number of distinct full segmentations of the lattice; the
\* returned paths are pairwise distinct, and each is a chain of abutting
\* nodes from position 0 to len that contains neither BOS nor EOS.
C28_NBestReturnsMinOfKAndPaths ==
    (NBestDone /\ op.nbest_size >= 2) =>
        /\ Len(op.paths) = Min(op.nbest_size, Cardinality(PathsFrom(lattice, 0)))
        /\ \A i, j \in 1..Len(op.paths) : i # j => op.paths[i] # op.paths[j]
        /\ \A i \in 1..Len(op.paths) :
              /\ op.paths[i] \in PathsFrom(lattice, 0)
              /\ \A n \in 1..Len(op.paths[i]) :
                    /\ op.paths[i][n] # lattice.end_nodes_[1][1]
                    /\ op.paths[i][n] # lattice.begin_nodes_[LatticeSize(lattice) + 1][1]
                    /\ lattice.nodes[op.paths[i][n] + 1].id # -1

\* C28 happens: NBest(3) on a lattice with two segmentations returns both,
\* the agenda being empty then
C28_Witness ==
    /\ NBestDone /\ op.nbest_size = 3
    /\ Cardinality(PathsFrom(lattice, 0)) = 2
    /\ Len(op.paths) = 2
    /\ op.paths[1] # op.paths[2]

\* NBest(2) has returned two of four segmentations or more
NBestStoppedAtSize ==
    /\ NBestDone /\ op.nbest_size = 2
    /\ Cardinality(PathsFrom(lattice, 0)) >= 4
    /\ Len(op.paths) = 2

\* the occurrences <<offset, id>> of USER_DEFINED pieces in the input that
\* begin and end on character boundaries
UserDefinedOccurrences ==
    {o \in (0..Len(op.input)) \X (0..(Len(model.model_proto_) - 1)) :
        LET piece == IdToPiece(model.model_proto_, o[2])
        IN  /\ IsUserDefined(model.model_proto_, o[2])
            /\ o[1] + Len(piece) <= Len(op.input)
            /\ SubSeq(op.input, o[1] + 1, o[1] + Len(piece)) = piece
            /\ \E pos \in 0..LatticeSize(lattice) : Surface(lattice, pos) = o[1]
            /\ \E pos \in 0..LatticeSize(lattice) :
                  Surface(lattice, pos) = o[1] + Len(piece)}

Overlap(o1, o2) ==
    /\ o1 # o2
    /\ o1[1] < o2[1] + Len(IdToPiece(model.model_proto_, o2[2]))
    /\ o2[1] < o1[1] + Len(IdToPiece(model.model_proto_, o1[2]))

\* the path of Encode has the piece of occurrence o as one token at o
TokenAt(o) ==
    \E k \in 1..Len(op.path) :
        /\ lattice.nodes[op.path[k] + 1].id = o[2]
        /\ Surface(lattice, lattice.nodes[op.path[k] + 1].pos) = o[1]
        /\ op.pieces[k].piece = IdToPiece(model.model_proto_, o[2])

\* C5: for a model with NORMAL pieces, wherever the surface of a
\* USER_DEFINED piece occurs in the input, not overlapping another such
\* occurrence, the segmentation Encode returns has that piece as a single
\* token there.
C5_UserDefinedAlwaysWins ==
    (EncodeDone /\ \E i \in 1..Len(model.model_proto_) :
                      model.model_proto_[i].type = "NORMAL") =>
        \A o \in UserDefinedOccurrences :
            (\A o2 \in UserDefinedOccurrences : ~Overlap(o, o2)) => TokenAt(o)

\* C5 fails: a USER_DEFINED piece occurs alone in the input and Encode
\* returns pieces none of which is USER_DEFINED
C5_UserDefinedLoses ==
    /\ EncodeDone
    /\ Cardinality(UserDefinedOccurrences) = 1
    /\ \A k \in 1..Len(op.pieces) : ~IsUserDefined(model.model_proto_, op.pieces[k].id)
    /\ \E k \in 1..Len(op.pieces) :
          PieceType(model.model_proto_, op.pieces[k].id) = "NORMAL"

-----------------------------------------------------------------------------
(* Properties of PieceToId, checked under SpecIndex.                       *)

\* the ids of the pieces of the model whose surface is s
IdsOf(s) ==
    {i \in 0..(Len(model.model_proto_) - 1) : IdToPiece(model.model_proto_, i) = s}

PieceToIdDone == op.name = "PieceToId"

\* C9: on a model with OK status, PieceToId of the surface of a NORMAL or
\* USER_DEFINED piece is the id of that piece.
C9_PieceToIdOfIdToPiece ==
    (PieceToIdDone /\ model.status_ = "OK") =>
        \A i \in IdsOf(op.input) :
            PieceType(model.model_proto_, i) \in {"NORMAL", "USER_DEFINED"}
                => op.ret = i

\* C9 fails: PieceToId of the surface of a NORMAL piece answers the id of a
\* CONTROL piece of the same surface, on a model with OK status
C9_ControlShadowsNormal ==
    /\ PieceToIdDone /\ model.status_ = "OK" /\ op.after = "none"
    /\ IsControl(model.model_proto_, op.ret)
    /\ \E i \in IdsOf(op.input) : PieceType(model.model_proto_, i) = "NORMAL"

\* C10, as the code has it: PieceToId(s) is the id of the UNKNOWN piece when
\* no piece has surface s; when s is the surface of an UNUSED piece and of
\* no CONTROL or UNKNOWN piece, it is the id of the UNUSED piece itself.
C10_PieceToId ==
    PieceToIdDone =>
        /\ (IdsOf(op.input) = {}) =>
              (op.ret = model.unk_id_ /\ IsUnknown(model.model_proto_, op.ret))
        /\ \A i \in IdsOf(op.input) :
              (/\ IsUnused(model.model_proto_, i)
               /\ \A j \in IdsOf(op.input) :
                     PieceType(model.model_proto_, j) \notin {"CONTROL", "UNKNOWN"})
                  => op.ret = i

\* C10 happens: PieceToId of a piece that SetVocabulary has just made
\* UNUSED, on a model whose UNKNOWN piece is not at id 0
C10_Witness ==
    /\ PieceToIdDone /\ op.after = "SetVocabulary"
    /\ model.unk_id_ # 0
    /\ \E i \in IdsOf(op.input) :
          IsUnused(model.model_proto_, i) /\ op.ret = i

\* C10 as stated: PieceToId(s) is the id of the UNKNOWN piece when no piece
\* has surface s and when s is the surface of an UNUSED piece.
C10_UnknownOnMissOrUnused ==
    (/\ PieceToIdDone
     /\ \/ IdsOf(op.input) = {}
        \/ \E i \in IdsOf(op.input) : IsUnused(model.model_proto_, i))
        => op.ret = model.unk_id_

-----------------------------------------------------------------------------
(* Properties of FinalizeSentencePieces, under SpecFinalize.               *)

FinalizeDone == trainer.pc = "done"

\* the required characters the model has no piece for
MissingChars ==
    {e \in trainer.required_chars_ :
        \A i \in 1..Len(model.sentencepieces_) :
            model.sentencepieces_[i].first # UnicodeCharToUTF8(e.key)}

\* C6: when vocab_size > |meta_pieces|, FinalizeSentencePieces returns
\* exactly vocab_size - |meta_pieces| pieces, whatever the number of
\* required characters and the size of the model.
C6_FinalSizeIsVocabSize ==
    FinalizeDone =>
        Len(trainer.final_pieces_) = trainer.vocab_size - trainer.meta_pieces_

\* C6: a finalization that returns more pieces than vocab_size - |meta_pieces|
\* because the required characters alone are more than that
C6_TooManyRequired ==
    /\ FinalizeDone
    /\ Cardinality(trainer.required_chars_) > trainer.vocab_size - trainer.meta_pieces_
    /\ Len(trainer.final_pieces_) = Cardinality(trainer.required_chars_)

\* C7: every required character is in the output of FinalizeSentencePieces,
\* with its model score when the model has a piece for it, and otherwise
\* with min_score + k * kMinScorePenaltyDelta, k being the number of missing
\* required characters visited before it in the order of Sorted (count
\* descending, then code point ascending).
C7_RequiredCharsInFinal ==
    FinalizeDone =>
        \A e \in trainer.required_chars_ :
            LET s == UnicodeCharToUTF8(e.key)
                before == {d \in MissingChars :
                              \/ d.value > e.value
                              \/ (d.value = e.value /\ d.key < e.key)}
                score == IF e \in MissingChars
                         THEN model.min_score_
                                  + Cardinality(before) * kMinScorePenaltyDelta
                         ELSE LET i == CHOOSE i \in 1..Len(model.sentencepieces_) :
                                           model.sentencepieces_[i].first = s
                              IN  model.sentencepieces_[i].second
            IN  \E i \in 1..Len(trainer.final_pieces_) :
                    trainer.final_pieces_[i] = [first |-> s, second |-> score]

\* C7: a finalization with a required character the model has, and two it
\* has not, of different counts
C7_Witness ==
    /\ FinalizeDone
    /\ trainer.required_chars_ \ MissingChars # {}
    /\ \E d, e \in MissingChars : d.value > e.value /\ d.key > e.key

-----------------------------------------------------------------------------
(* Properties of Train, under SpecTrain and SpecTrainFair.                 *)

\* every lattice the trainer builds has one path
TrainLatticesHaveOnePath ==
    trainer.pc \in {"estep", "mstep", "check", "prune"} =>
        \A i \in 1..Len(trainer.sentences_) :
            LET lat == PopulateNodes(model, SetSentence(trainer.sentences_[i].first)).lat
            IN  \A pos \in 1..LatticeSize(lat) : Len(lat.begin_nodes_[pos]) = 1

-----------------------------------------------------------------------------
(* Properties of InitializePieces, under SpecIndex.                        *)

\* two pieces of the model have the same surface
SharedSurface ==
    \E i, j \in 1..Len(model.model_proto_) :
        i # j /\ model.model_proto_[i].piece = model.model_proto_[j].piece

\* C11: a model in which two pieces have the same surface has a status
\* other than OK, whatever the types of the two pieces.
C11_SharedSurfaceIsError == SharedSurface => model.status_ # "OK"

\* C11 fails: a model with OK status in which a CONTROL or UNKNOWN piece and
\* a NORMAL, USER_DEFINED or UNUSED piece have the same surface
C11_SharedAcrossMaps ==
    /\ model.status_ = "OK"
    /\ \E i, j \in 1..Len(model.model_proto_) :
          /\ model.model_proto_[i].piece = model.model_proto_[j].piece
          /\ model.model_proto_[i].type \in {"CONTROL", "UNKNOWN"}
          /\ model.model_proto_[j].type \in {"NORMAL", "USER_DEFINED", "UNUSED"}

-----------------------------------------------------------------------------
(* SentencePieceProcessor: extra options, PopulateSentencePieceText and    *)
(* Decode.  A SentencePieceText is the sequence of its pieces, each a      *)
(* record [piece, id, surface, begin, end], with its text.                 *)

\* kSpaceSymbol, U+2581 in UTF-8
kSpaceSymbol == <<226, 150, 129>>

\* kDefaultUnknownSymbol, " U+2047 "
kDefaultUnknownSymbol == <<32, 226, 129, 135, 32>>

\* the defaults of bos_piece(), eos_piece() and unk_piece(): "<s>", "</s>"
\* and "<unk>"
BosPiece == <<60, 115, 62>>
EosPiece == <<60, 47, 115, 62>>
DefaultUnkPiece == <<60, 117, 110, 107, 62>>

\* the keys of extra_option_map: "bos", "eos" and "reverse"
ExtraOptionMap ==
    {[key |-> <<98, 111, 115>>, value |-> "BOS"],
     [key |-> <<101, 111, 115>>, value |-> "EOS"],
     [key |-> <<114, 101, 118, 101, 114, 115, 101>>, value |-> "REVERSE"]}

\* str.find_first_of(delim, current_pos) for a delimiter of one character:
\* the position, counted from 0, or -1 for npos
FindFirstOf(str, delim, current_pos) ==
    LET found == {p \in current_pos..(Len(str) - 1) : str[p + 1] = delim}
    IN  IF found = {} THEN -1 ELSE CHOOSE p \in found : \A q \in found : p <= q

\* the loop of string_util::SplitInternal and what follows it
RECURSIVE SplitInternalFrom(_, _, _, _, _)
SplitInternalFrom(str, delim, allow_empty, current_pos, result) ==
    LET found_pos == FindFirstOf(str, delim, current_pos)
    IN  IF found_pos # -1 THEN
            SplitInternalFrom(str, delim, allow_empty, found_pos + 1,
                IF \/ (allow_empty /\ found_pos >= current_pos)
                   \/ (~allow_empty /\ found_pos > current_pos)
                THEN Append(result, SubSeq(str, current_pos + 1, found_pos))
                ELSE result)
        ELSE IF Len(str) > current_pos
             THEN Append(result, SubSeq(str, current_pos + 1, Len(str)))
             ELSE result

\* string_util::SplitPiece(str, delim), allow_empty being false
SplitPiece(str, delim) == SplitInternalFrom(str, delim, FALSE, 0, <<>>)

\* ParseExtraOptions returning on a bos or eos token before it is pushed
RECURSIVE ParseExtraOptionsFromDropsFailed(_, _, _, _)
ParseExtraOptionsFromDropsFailed(m, tokens, i, extra_options) ==
    IF i > Len(tokens) THEN [ok |-> TRUE, extra_options |-> extra_options]
    ELSE IF ~ContainsKey(ExtraOptionMap, tokens[i]) THEN
        [ok |-> FALSE, extra_options |-> extra_options]
    ELSE
        LET second == Lookup(ExtraOptionMap, tokens[i])
            pushed == Append(extra_options, second)
        IN  IF second = "BOS" /\ IsUnknown(m.model_proto_, PieceToId(m, BosPiece))
            THEN [ok |-> FALSE, extra_options |-> extra_options]
            ELSE IF second = "EOS" /\ IsUnknown(m.model_proto_, PieceToId(m, EosPiece))
            THEN [ok |-> FALSE, extra_options |-> extra_options]
            ELSE ParseExtraOptionsFromDropsFailed(m, tokens, i + 1, pushed)

\* the loop of ParseExtraOptions from token i on: a token that is not in
\* extra_option_map returns before it is pushed, a bos or eos token whose
\* piece has the id of the UNKNOWN piece returns after it was pushed
RECURSIVE ParseExtraOptionsFrom(_, _, _, _)
ParseExtraOptionsFrom(m, tokens, i, extra_options) ==
    IF i > Len(tokens) THEN [ok |-> TRUE, extra_options |-> extra_options]
    ELSE IF ~ContainsKey(ExtraOptionMap, tokens[i]) THEN
        [ok |-> FALSE, extra_options |-> extra_options]
    ELSE
        LET second == Lookup(ExtraOptionMap, tokens[i])
            pushed == Append(extra_options, second)
        IN  IF second = "BOS" /\ IsUnknown(m.model_proto_, PieceToId(m, BosPiece))
            THEN [ok |-> FALSE, extra_options |-> pushed]
            ELSE IF second = "EOS" /\ IsUnknown(m.model_proto_, PieceToId(m, EosPiece))
            THEN [ok |-> FALSE, extra_options |-> pushed]
            ELSE ParseExtraOptionsFrom(m, tokens, i + 1, pushed)

\* SentencePieceProcessor::ParseExtraOptions: whether it returned OK, and
\* the vector it was given as it leaves it
ParseExtraOptions(m, extra_option) ==
    IF extra_option = <<>> THEN [ok |-> TRUE, extra_options |-> <<>>]
    ELSE IF m.status_ # "OK" THEN [ok |-> FALSE, extra_options |-> <<>>]
    ELSE ParseExtraOptionsFrom(m, SplitPiece(extra_option, 58), 1, <<>>)

\* a piece of a SentencePieceText as add_pieces() leaves it
EmptyPiece == [piece |-> <<>>, id |-> 0, surface |-> <<>>, begin |-> 0, end |-> 0]

\* the piece ApplyExtraOptions adds for bos and eos
MetaPiece(m, piece) == [EmptyPiece EXCEPT !.piece = piece, !.id = PieceToId(m, piece)]

\* ApplyExtraOptions taking the options from the last to the first
RECURSIVE ApplyExtraOptionsBackwards(_, _, _, _)
ApplyExtraOptionsBackwards(m, extra_options, i, pieces) ==
    IF i > Len(extra_options) THEN pieces
    ELSE LET extra_option == extra_options[Len(extra_options) + 1 - i]
         IN  ApplyExtraOptionsBackwards(m, extra_options, i + 1,
                 CASE extra_option = "REVERSE" -> Reverse(pieces)
                   [] extra_option = "EOS" -> Append(pieces, MetaPiece(m, EosPiece))
                   [] extra_option = "BOS" -> <<MetaPiece(m, BosPiece)>> \o pieces)

\* SentencePieceProcessor::ApplyExtraOptions from option i on
RECURSIVE ApplyExtraOptions(_, _, _, _)
ApplyExtraOptions(m, extra_options, i, pieces) ==
    IF i > Len(extra_options) THEN pieces
    ELSE ApplyExtraOptions(m, extra_options, i + 1,
            CASE extra_options[i] = "REVERSE" -> Reverse(pieces)
              [] extra_options[i] = "EOS" -> Append(pieces, MetaPiece(m, EosPiece))
              [] extra_options[i] = "BOS" -> <<MetaPiece(m, BosPiece)>> \o pieces)

\* the body of the loop of PopulateSentencePieceText for a piece that is not
\* CONTROL, its CHECKs passed: the last piece grows when it and this piece
\* are unknown
PopulatePiece(input, norm_to_orig, w, id, consumed, merge, pieces) ==
    LET orig_begin == norm_to_orig[consumed + 1]
        orig_end == norm_to_orig[consumed + Len(w) + 1]
        surface == SubSeq(input, orig_begin + 1, Min(orig_end, Len(input)))
        last == pieces[Len(pieces)]
    IN  IF merge
        THEN [pieces EXCEPT ![Len(pieces)] =
                 [last EXCEPT !.piece = @ \o w, !.surface = @ \o surface,
                              !.end = orig_end]]
        ELSE Append(pieces, [piece |-> w, id |-> id, surface |-> surface,
                             begin |-> orig_begin, end |-> orig_end])

\* the loop of PopulateSentencePieceText over the result of Encode, from
\* pair i on, and the CHECK_EQ on consumed that follows it
RECURSIVE PopulateSentencePieceTextFrom(_, _, _, _, _, _, _, _)
PopulateSentencePieceTextFrom(m, input, norm_to_orig, result, i, consumed,
                              is_prev_unk, pieces) ==
    IF i > Len(result) THEN [ok |-> TRUE, consumed |-> consumed, pieces |-> pieces]
    ELSE
        LET w == result[i].piece
            id == result[i].id
            is_unk == IsUnknown(m.model_proto_, id)
            failed == [ok |-> FALSE, consumed |-> consumed, pieces |-> pieces]
        IN  IF w = <<>> THEN failed
            ELSE IF IsControl(m.model_proto_, id) THEN
                PopulateSentencePieceTextFrom(m, input, norm_to_orig, result, i + 1,
                    consumed, is_unk,
                    Append(pieces, [piece |-> w, id |-> id, surface |-> <<>>,
                                    begin |-> norm_to_orig[consumed + 1],
                                    end |-> norm_to_orig[consumed + 1]]))
            ELSE IF \/ consumed >= Len(norm_to_orig)
                    \/ consumed + Len(w) >= Len(norm_to_orig)
                    \/ norm_to_orig[consumed + 1] > Len(input)
                    \/ norm_to_orig[consumed + Len(w) + 1] > Len(input)
                    \/ norm_to_orig[consumed + 1] > norm_to_orig[consumed + Len(w) + 1]
            THEN failed
            ELSE PopulateSentencePieceTextFrom(m, input, norm_to_orig, result, i + 1,
                    consumed + Len(w), is_unk,
                    PopulatePiece(input, norm_to_orig, w, id, consumed,
                                  is_prev_unk /\ is_unk, pieces))

\* PopulateSentencePieceText after its loop
PopulateSentencePieceTextEnd(m, input, normalized, looped) ==
    IF ~looped.ok \/ looped.consumed # Len(normalized)
    THEN [ok |-> FALSE, pieces |-> looped.pieces, text |-> <<>>]
    ELSE [ok |-> TRUE,
          pieces |-> ApplyExtraOptions(m, m.encode_extra_options_, 1, looped.pieces),
          text |-> input]

\* SentencePieceProcessor::PopulateSentencePieceText
PopulateSentencePieceText(m, input, normalized, norm_to_orig, result) ==
    PopulateSentencePieceTextEnd(m, input, normalized,
        PopulateSentencePieceTextFrom(m, input, norm_to_orig, result, 1, 0, FALSE, <<>>))

\* s.find(oldsub, start_pos), counted from 0, -1 for npos
Find(s, oldsub, start_pos) ==
    LET found == {p \in start_pos..(Len(s) - Len(oldsub)) :
                     SubSeq(s, p + 1, p + Len(oldsub)) = oldsub}
    IN  IF found = {} THEN -1 ELSE CHOOSE p \in found : \A q \in found : p <= q

\* the loop of string_util::StringReplace with replace_all, and its last append
RECURSIVE StringReplaceFrom(_, _, _, _, _)
StringReplaceFrom(s, oldsub, newsub, start_pos, res) ==
    LET pos == Find(s, oldsub, start_pos)
    IN  IF pos = -1 THEN res \o SubSeq(s, start_pos + 1, Len(s))
        ELSE StringReplaceFrom(s, oldsub, newsub, pos + Len(oldsub),
                 res \o SubSeq(s, start_pos + 1, pos) \o newsub)

\* string_util::StringReplace(s, oldsub, newsub, true)
StringReplace(s, oldsub, newsub) ==
    IF oldsub = <<>> THEN s ELSE StringReplaceFrom(s, oldsub, newsub, 0, <<>>)

\* string_util::ConsumePrefix: the string without the prefix it begins with
ConsumePrefix(str, expected) ==
    IF IsPrefix(expected, str) THEN SubSeq(str, Len(expected) + 1, Len(str)) ELSE str

\* the lambda DecodeSentencePiece of Decode
DecodeSentencePiece(m, piece, id, is_bos_ws) ==
    IF IsControl(m.model_proto_, id) THEN <<>>
    ELSE IF IsUnknown(m.model_proto_, id) THEN
        IF IdToPiece(m.model_proto_, id) = piece THEN kDefaultUnknownSymbol ELSE piece
    ELSE StringReplace(IF is_bos_ws THEN ConsumePrefix(piece, kSpaceSymbol) ELSE piece,
                       kSpaceSymbol, <<32>>)

\* the last loop of Decode: surface, begin and end of every piece, and the text
RECURSIVE DecodeText(_, _, _, _)
DecodeText(m, pieces, i, text) ==
    IF i > Len(pieces) THEN [ok |-> TRUE, pieces |-> pieces, text |-> text]
    ELSE LET surface == DecodeSentencePiece(m, pieces[i].piece, pieces[i].id, text = <<>>)
         IN  DecodeText(m,
                 [pieces EXCEPT ![i] = [@ EXCEPT !.surface = surface,
                                                 !.begin = Len(text),
                                                 !.end = Len(text) + Len(surface)]],
                 i + 1, text \o surface)

\* SentencePieceProcessor::Decode(pieces, spt)
DecodePieces(m, pieces) ==
    DecodeText(m,
        ApplyExtraOptions(m, m.decode_extra_options_, 1,
            [i \in 1..Len(pieces) |->
                [EmptyPiece EXCEPT !.piece = pieces[i], !.id = PieceToId(m, pieces[i])]]),
        1, <<>>)

\* model_->IdToPiece(id) in Decode(ids): pieces(id) of an id that is not in
\* [0, pieces_size()) reads outside the repeated field, which is undefined;
\* dangling.piece is the string such a read finds
IdToPieceUnchecked(m, id, dangling) ==
    IF id >= 0 /\ id < Len(m.model_proto_) THEN IdToPiece(m.model_proto_, id)
    ELSE dangling.piece

\* SentencePieceProcessor::Decode(ids, spt); dangling.abort is whether a
\* read outside the repeated field (or the index check of a debug build)
\* ends the process
DecodeIds(m, ids, dangling) ==
    IF m.status_ # "OK" THEN [ok |-> FALSE, pieces |-> <<>>, text |-> <<>>]
    ELSE IF dangling.abort /\ \E i \in 1..Len(ids) : ids[i] < 0 \/ ids[i] >= Len(m.model_proto_)
    THEN [ok |-> FALSE, pieces |-> <<>>, text |-> <<>>]
    ELSE DecodePieces(m, [i \in 1..Len(ids) |-> IdToPieceUnchecked(m, ids[i], dangling)])

\* Encode after model_->Encode(normalized) returned enc; enc.ok is FALSE
\* when the CHECK of PopulateNodes ended the process
ProcessorEncodeResult(m, input, enc) ==
    IF ~enc.ok THEN [ok |-> FALSE, pieces |-> <<>>, text |-> <<>>]
    ELSE PopulateSentencePieceText(m, input, input,
             [k \in 1..(Len(input) + 1) |-> k - 1], enc.results)

\* SentencePieceProcessor::Encode(input, spt) on an input that Normalize
\* leaves as it is: normalized is the input and norm_to_orig maps every
\* byte offset to itself
ProcessorEncode(m, input) ==
    IF m.status_ # "OK" THEN [ok |-> FALSE, pieces |-> <<>>, text |-> <<>>]
    ELSE ProcessorEncodeResult(m, input, Encode(m, input))

-----------------------------------------------------------------------------
(* The processor state machine: a SentencePieceProcessor with a model,     *)
(* calls of SetEncodeExtraOptions and SetDecodeExtraOptions, then a call   *)
(* of Encode or Decode.  model holds the extra options of the processor.   *)

\* the most tokens of an extra option string
MaxOptions == 2
\* the most ids given to Decode
MaxDecodeIds == 2
\* the most calls of SetEncodeExtraOptions and SetDecodeExtraOptions
MaxOptionCalls == 2

\* the tokens of option strings: "bos", "eos", "reverse" and "x"
OptionTokens == {e.key : e \in ExtraOptionMap} \cup {<<120>>}

\* tokens joined with ":"
RECURSIVE JoinTokens(_, _)
JoinTokens(tokens, i) ==
    IF i > Len(tokens) THEN <<>>
    ELSE IF i = Len(tokens) THEN tokens[i]
    ELSE tokens[i] \o <<58>> \o JoinTokens(tokens, i + 1)

\* the option strings: 0 .. MaxOptions tokens joined with ":", and "bos::eos"
OptionStrings ==
    {JoinTokens(ts, 1) : ts \in UNION {[1..n -> OptionTokens] : n \in 0..MaxOptions}}
        \cup {<<98, 111, 115, 58, 58, 101, 111, 115>>}

\* the sets of NORMAL pieces of a processor's model: "a"; "a", "b", "ab";
\* U+2581 "a", "b"
ProcessorVocabularies ==
    {{<<97>>}, {<<97>>, <<98>>, <<97, 98>>}, {kSpaceSymbol \o <<97>>, <<98>>}}

\* the model protos: "<unk>", then "<s>" and "</s>" or not, then NORMAL pieces
ProcessorProtos ==
    {<<[piece |-> DefaultUnkPiece, score |-> 0, type |-> "UNKNOWN"]>>
        \o (IF bos THEN <<[piece |-> BosPiece, score |-> 0, type |-> "CONTROL"]>> ELSE <<>>)
        \o (IF eos THEN <<[piece |-> EosPiece, score |-> 0, type |-> "CONTROL"]>> ELSE <<>>)
        \o [i \in 1..Len(SortedSeq(S)) |->
               [piece |-> SortedSeq(S)[i], score |-> -Len(SortedSeq(S)[i]) - i,
                type |-> "NORMAL"]] :
     bos \in BOOLEAN, eos \in BOOLEAN, S \in ProcessorVocabularies}

\* the inputs of Encode: "a", "b", "c" in strings of one and two, and
\* U+2581 "ab"
ProcessorInputs ==
    UNION {[1..n -> {97, 98, 99}] : n \in 1..2} \cup {kSpaceSymbol \o <<97, 98>>}

\* what a read outside the repeated field gives: the end of the process, the
\* empty string of a cleared element, or some other string
Danglings ==
    {[abort |-> TRUE, piece |-> <<>>], [abort |-> FALSE, piece |-> <<>>],
     [abort |-> FALSE, piece |-> <<97>>]}

NoCall ==
    [name |-> "none", ok |-> TRUE, input |-> <<>>, pieces |-> <<>>, text |-> <<>>,
     before |-> <<>>, set_calls |-> 0]

InitProcessor ==
    /\ \E proto \in ProcessorProtos :
          model = NewModel(proto)
                      @@ [encode_extra_options_ |-> <<>>, decode_extra_options_ |-> <<>>]
    /\ lattice = EmptyLattice
    /\ op = NoCall
    /\ trainer = NoTrainer

\* Encode and Decode have not been called; MaxOptionCalls bounds the calls
\* that set options
CanSetOptions == op.name \notin {"Encode", "Decode"} /\ op.set_calls < MaxOptionCalls
CanRun == op.name \notin {"Encode", "Decode"}

\* the state after ParseExtraOptions returned r for encode_extra_options_
EncodeOptionsParsed(extra_options, r) ==
    /\ model' = [model EXCEPT !.encode_extra_options_ = r.extra_options]
    /\ op' = [NoCall EXCEPT !.name = "SetEncodeExtraOptions", !.ok = r.ok,
                            !.input = extra_options,
                            !.before = model.encode_extra_options_,
                            !.set_calls = op.set_calls + 1]

\* SentencePieceProcessor::SetEncodeExtraOptions(extra_options)
DoSetEncodeExtraOptions(extra_options) ==
    /\ CanSetOptions
    /\ EncodeOptionsParsed(extra_options, ParseExtraOptions(model, extra_options))
    /\ UNCHANGED <<lattice, trainer>>

\* the state after ParseExtraOptions returned r for decode_extra_options_
DecodeOptionsParsed(extra_options, r) ==
    /\ model' = [model EXCEPT !.decode_extra_options_ = r.extra_options]
    /\ op' = [NoCall EXCEPT !.name = "SetDecodeExtraOptions", !.ok = r.ok,
                            !.input = extra_options,
                            !.before = model.decode_extra_options_,
                            !.set_calls = op.set_calls + 1]

\* SentencePieceProcessor::SetDecodeExtraOptions(extra_options)
DoSetDecodeExtraOptions(extra_options) ==
    /\ CanSetOptions
    /\ DecodeOptionsParsed(extra_options, ParseExtraOptions(model, extra_options))
    /\ UNCHANGED <<lattice, trainer>>

\* the state after Encode or Decode returned r
ProcessorReturns(name, input, r) ==
    op' = [NoCall EXCEPT !.name = name, !.ok = r.ok, !.input = input,
                         !.pieces = r.pieces, !.text = r.text,
                         !.set_calls = op.set_calls]

\* SentencePieceProcessor::Encode(input, spt)
DoProcessorEncode(input) ==
    /\ CanRun
    /\ ProcessorReturns("Encode", input, ProcessorEncode(model, input))
    /\ UNCHANGED <<model, lattice, trainer>>

\* SentencePieceProcessor::Decode(ids, spt)
DoDecode(ids, dangling) ==
    /\ CanRun
    /\ ProcessorReturns("Decode", [ids |-> ids, dangling |-> dangling],
                        DecodeIds(model, ids, dangling))
    /\ UNCHANGED <<model, lattice, trainer>>

\* the ids given to Decode: from -1 to the size of the model
DecodeInputs ==
    UNION {[1..n -> -1..Len(model.model_proto_)] : n \in 0..MaxDecodeIds}

NextProcessor ==
    \/ \E s \in OptionStrings : DoSetEncodeExtraOptions(s)
    \/ \E s \in OptionStrings : DoSetDecodeExtraOptions(s)
    \/ \E input \in ProcessorInputs : DoProcessorEncode(input)
    \/ \E ids \in DecodeInputs, dangling \in Danglings : DoDecode(ids, dangling)

SpecProcessor == InitProcessor /\ [][NextProcessor]_vars

-----------------------------------------------------------------------------
(* Properties of the processor, under SpecProcessor.                       *)

DecodeDone == op.name = "Decode"

\* the ids of a Decode call that are in [0, GetPieceSize())
InRange(ids) ==
    SelectSeq(ids, LAMBDA id : id >= 0 /\ id < Len(model.model_proto_))

\* C12: Decode(ids) returns OK, and its text is the text of Decode on the
\* ids that are in [0, GetPieceSize()), the others being skipped.
C12_DecodeSkipsOutOfRange ==
    DecodeDone =>
        /\ op.ok
        /\ op.text = DecodeIds(model, InRange(op.input.ids), op.input.dangling).text

\* C12 fails: Decode of ids of which one is out of range ends the process,
\* or gives a text with the bytes found outside the repeated field
C12_OutOfRangeRead ==
    /\ DecodeDone
    /\ InRange(op.input.ids) # op.input.ids
    /\ InRange(op.input.ids) # <<>>
    /\ \/ ~op.ok
       \/ op.text # DecodeIds(model, InRange(op.input.ids), op.input.dangling).text

\* the options an option string lists, in its order: the names between the
\* colons
Listed(extra_option) ==
    LET tokens == SplitPiece(extra_option, 58)
    IN  [i \in 1..Len(tokens) |->
            CASE tokens[i] = <<98, 111, 115>> -> "bos"
              [] tokens[i] = <<101, 111, 115>> -> "eos"
              [] tokens[i] = <<114, 101, 118, 101, 114, 115, 101>> -> "reverse"
              [] OTHER -> "unknown"]

\* the pieces of the model with the given surface, as pieces of a
\* SentencePieceText
PieceOf(surface) ==
    [EmptyPiece EXCEPT !.piece = surface,
                       !.id = CHOOSE i \in IdsOf(surface) : TRUE]

\* a piece sequence after the listed options were applied to it one after
\* another, the first i of them
RECURSIVE Applied(_, _, _)
Applied(listed, i, pieces) ==
    IF i = 0 THEN pieces
    ELSE LET sofar == Applied(listed, i - 1, pieces)
         IN  CASE listed[i] \in {"reverse", "REVERSE"} ->
                      [k \in 1..Len(sofar) |-> sofar[Len(sofar) + 1 - k]]
               [] listed[i] \in {"bos", "BOS"} -> <<PieceOf(BosPiece)>> \o sofar
               [] listed[i] \in {"eos", "EOS"} -> sofar \o <<PieceOf(EosPiece)>>

\* the pieces Encode gives for the input when no option is set
PlainPieces(input) ==
    ProcessorEncode([model EXCEPT !.encode_extra_options_ = <<>>], input).pieces

\* C13: a SetEncodeExtraOptions that succeeded has stored the options its
\* string lists, in their order, and Encode returns the pieces of the input
\* with the stored options applied one after another in that order: bos
\* puts the BOS piece at the front, eos the EOS piece at the end, reverse
\* reverses the sequence as it is then.
C13_OptionsInListedOrder ==
    /\ (op.name = "SetEncodeExtraOptions" /\ op.ok) =>
          /\ Len(model.encode_extra_options_) = Len(Listed(op.input))
          /\ \A i \in 1..Len(Listed(op.input)) :
                <<Listed(op.input)[i], model.encode_extra_options_[i]>>
                    \in {<<"bos", "BOS">>, <<"eos", "EOS">>, <<"reverse", "REVERSE">>}
    /\ (op.name = "Encode" /\ op.ok
            /\ \A i \in 1..Len(model.encode_extra_options_) :
                  /\ model.encode_extra_options_[i] = "BOS" => IdsOf(BosPiece) # {}
                  /\ model.encode_extra_options_[i] = "EOS" => IdsOf(EosPiece) # {}) =>
          op.pieces = Applied(model.encode_extra_options_,
                              Len(model.encode_extra_options_), PlainPieces(op.input))

\* C13 happens: Encode of an input of two pieces or more with the options
\* eos and reverse, in this order, stored
C13_Witness ==
    /\ op.name = "Encode" /\ op.ok
    /\ model.encode_extra_options_ = <<"EOS", "REVERSE">>
    /\ Len(PlainPieces(op.input)) >= 2
    /\ op.pieces[1].piece = EosPiece

\* the option tokens of a string at which ParseExtraOptions fails: a name
\* that is no option, and bos or eos when the model has no such piece
FailingTokens(listed) ==
    {i \in 1..Len(listed) :
        \/ listed[i] = "unknown"
        \/ listed[i] = "bos" /\ IdsOf(BosPiece) = {}
        \/ listed[i] = "eos" /\ IdsOf(EosPiece) = {}}

\* the options that the first n names stand for
OptionsOf(listed, n) ==
    [i \in 1..n |-> CASE listed[i] = "bos" -> "BOS"
                      [] listed[i] = "eos" -> "EOS"
                      [] listed[i] = "reverse" -> "REVERSE"]

\* what a call that sets options leaves stored for the string: every
\* option, or those up to the first failing token, which is stored as well
\* when it is bos or eos
StoredFor(extra_option) ==
    LET listed == Listed(extra_option)
        fails == FailingTokens(listed)
        k == CHOOSE i \in fails : \A j \in fails : i <= j
    IN  IF fails = {} THEN OptionsOf(listed, Len(listed))
        ELSE OptionsOf(listed, IF listed[k] = "unknown" THEN k - 1 ELSE k)

\* the surfaces of a piece sequence after the options were applied to it
\* one after another, the first i of them
RECURSIVE AppliedSurfaces(_, _, _)
AppliedSurfaces(extra_options, i, surfaces) ==
    IF i = 0 THEN surfaces
    ELSE LET sofar == AppliedSurfaces(extra_options, i - 1, surfaces)
         IN  CASE extra_options[i] = "REVERSE" ->
                      [k \in 1..Len(sofar) |-> sofar[Len(sofar) + 1 - k]]
               [] extra_options[i] = "BOS" -> <<BosPiece>> \o sofar
               [] extra_options[i] = "EOS" -> sofar \o <<EosPiece>>

\* the surfaces of the pieces the last call returned
ReturnedSurfaces == [i \in 1..Len(op.pieces) |-> op.pieces[i].piece]

\* the surfaces of the pieces Decode is given with the ids
DecodedSurfaces ==
    [i \in 1..Len(op.input.ids) |->
        IdToPieceUnchecked(model, op.input.ids[i], op.input.dangling)]

\* C29: a call of SetEncodeExtraOptions or SetDecodeExtraOptions always
\* discards the previously stored options: with an empty string the stored
\* list becomes empty and the call returns OK; when the call fails on an
\* unknown token or on a bos/eos token whose piece id is unknown, the
\* stored list is exactly the tokens parsed before the failure, including
\* the failing bos/eos token, and later Encode/Decode calls apply that list.
C29_SetOptionsReplaces ==
    /\ op.name \in {"SetEncodeExtraOptions", "SetDecodeExtraOptions"} =>
          LET stored == IF op.name = "SetEncodeExtraOptions"
                        THEN model.encode_extra_options_
                        ELSE model.decode_extra_options_
          IN  /\ stored = StoredFor(op.input)
              /\ op.ok <=> FailingTokens(Listed(op.input)) = {}
              /\ op.input = <<>> => op.ok /\ stored = <<>>
    /\ (op.name = "Encode" /\ op.ok) =>
          ReturnedSurfaces =
              AppliedSurfaces(model.encode_extra_options_,
                              Len(model.encode_extra_options_),
                              [i \in 1..Len(PlainPieces(op.input)) |->
                                  PlainPieces(op.input)[i].piece])
    /\ (op.name = "Decode" /\ op.ok) =>
          ReturnedSurfaces =
              AppliedSurfaces(model.decode_extra_options_,
                              Len(model.decode_extra_options_), DecodedSurfaces)

\* C29 happens: Encode of an input returns the BOS piece in front, on a
\* model without that piece, which only a failed call can have stored
C29_Witness ==
    /\ op.name = "Encode" /\ op.ok
    /\ IdsOf(BosPiece) = {}
    /\ model.encode_extra_options_ = <<"REVERSE", "BOS">>
    /\ Len(op.pieces) >= 3
    /\ op.pieces[1].piece = BosPiece

\* a failed call has replaced options that were stored
FailedCallReplaced ==
    /\ op.name = "SetDecodeExtraOptions" /\ ~op.ok
    /\ op.before = <<"REVERSE">>
    /\ model.decode_extra_options_ = <<"EOS">>

-----------------------------------------------------------------------------
(* The vocabulary restriction state machine: a processor on a unigram      *)
(* model, calls of SetVocabulary, then a call of Encode.                   *)

\* most calls of SetVocabulary before Encode
MaxVocabularyCalls == 2

\* the models a vocabulary is set on: the protos over "a" and "b"
VocabularyProtos == ProtosOver({97, 98})

\* the vocabularies set: "a", "ab", "ba" or not
ValidVocabs == SUBSET {<<97>>, <<97, 98>>, <<98, 97>>}

\* the inputs of Encode: the strings of "a" and "b" of 1 .. MaxLen - 1
\* bytes, and "ac" with a character no piece has
VocabularyInputs == StringsOver({97, 98}, MaxLen) \cup {<<97, 99>>}

NoVocabularyCall ==
    [name |-> "none", ok |-> TRUE, input |-> <<>>, pieces |-> <<>>,
     valid_vocab |-> {}, set_calls |-> 0]

InitVocabulary ==
    /\ \E proto \in VocabularyProtos :
          model = NewModel(proto)
                      @@ [encode_extra_options_ |-> <<>>, decode_extra_options_ |-> <<>>]
    /\ lattice = EmptyLattice
    /\ op = NoVocabularyCall
    /\ trainer = NoTrainer

\* SentencePieceProcessor::SetVocabulary(valid_vocab), before any Encode
SetVocabularyCall(valid_vocab) ==
    /\ model.status_ = "OK"
    /\ op.name # "Encode" /\ op.set_calls < MaxVocabularyCalls
    /\ model' = [model EXCEPT !.model_proto_ = SetVocabulary(@, valid_vocab)]
    /\ op' = [NoVocabularyCall EXCEPT !.name = "SetVocabulary",
                                     !.valid_vocab = valid_vocab,
                                     !.set_calls = op.set_calls + 1]
    /\ UNCHANGED <<lattice, trainer>>

\* the state after a call of Encode that returned r
VocabularyEncodeReturns(input, r) ==
    /\ op' = [op EXCEPT !.name = "Encode", !.input = input, !.ok = r.ok,
                        !.pieces = r.pieces]
    /\ UNCHANGED <<model, lattice, trainer>>

\* SentencePieceProcessor::Encode(input, spt) after a SetVocabulary
EncodeCall(input) ==
    /\ op.name = "SetVocabulary"
    /\ VocabularyEncodeReturns(input, ProcessorEncode(model, input))

NextVocabulary ==
    \/ \E v \in ValidVocabs : SetVocabularyCall(v)
    \/ \E s \in VocabularyInputs : EncodeCall(s)

SpecVocabulary == InitVocabulary /\ [][NextVocabulary]_vars

-----------------------------------------------------------------------------
(* Properties of the vocabulary restriction, under SpecVocabulary.         *)

\* Encode has returned its pieces after a SetVocabulary
RestrictedEncodeDone == op.name = "Encode" /\ op.ok

\* a piece that is one character long
SingleCharacter(piece) == Len(piece) > 0 /\ OneCharLen(piece[1]) = Len(piece)

-----------------------------------------------------------------------------
(* The pruning state machine: a TrainerModel with any pieces and a corpus, *)
(* then one call of PruneSentencePieces on it.  Scores are in units of 1.  *)

\* most pieces of a model that is pruned, and most sentences of its corpus
MaxPrunePieces == 3
MaxPruneSentences == 2

\* the surfaces of the pieces: "a", "b", "ab", "aa", "ba"
PruneSurfaces == {<<97>>, <<98>>, <<97, 98>>, <<97, 97>>, <<98, 97>>}

\* their scores
PruneScores == {-1, -2}

\* the sentences of the corpus: "a", "ab", "ba", "aab"
PruneSentences == {<<97>>, <<97, 98>>, <<98, 97>>, <<97, 97, 98>>}

\* the piece lists: 1 .. MaxPrunePieces pieces of distinct surfaces in any
\* order
PruneModels ==
    UNION {{v \in [1..n -> [first : PruneSurfaces, second : PruneScores]] :
               \A i, j \in 1..n : i # j => v[i].first # v[j].first} :
           n \in 1..MaxPrunePieces}

\* the corpora: 1 .. MaxPruneSentences distinct sentences with a weight
PruneCorpora ==
    UNION {{v \in [1..n -> [first : PruneSentences, second : TrainFrequencies]] :
               \A i, j \in 1..n : i < j => StrLess(v[i].first, v[j].first)} :
           n \in 1..MaxPruneSentences}

NoPruneCall ==
    [name |-> "none", sentencepieces |-> <<>>, new_sentencepieces |-> <<>>]

InitPrune ==
    /\ \E sentencepieces \in PruneModels : model = SetSentencePieces(sentencepieces)
    /\ \E sentences \in PruneCorpora, desired_vocab_size \in 1..MaxPrunePieces :
          trainer = [NewTrainer("prune", sentences, {}, 0, 0, 1)
                         EXCEPT !.desired_vocab_size_ = desired_vocab_size]
    /\ lattice = EmptyLattice
    /\ op = NoPruneCall

\* the state after PruneSentencePieces(model) returned new_sentencepieces
PruneSentencePiecesReturns(new_sentencepieces) ==
    /\ op' = [name |-> "PruneSentencePieces",
              sentencepieces |-> model.sentencepieces_,
              new_sentencepieces |-> new_sentencepieces]
    /\ trainer' = [trainer EXCEPT !.pc = "pruned"]
    /\ UNCHANGED <<model, lattice>>

\* Trainer::PruneSentencePieces(model)
DoPruneSentencePieces ==
    /\ trainer.pc = "prune"
    /\ PruneSentencePiecesReturns(
           PruneSentencePieces(model, trainer.sentences_, trainer.desired_vocab_size_))

NextPrune == DoPruneSentencePieces

SpecPrune == InitPrune /\ [][NextPrune]_vars

-----------------------------------------------------------------------------
(* Properties of PruneSentencePieces, under SpecPrune.                     *)

\* PruneSentencePieces has returned
PruneDone == op.name = "PruneSentencePieces"

\* max(desired_vocab_size, floor(shrinking_factor * n)) for the default
\* shrinking_factor of 0.75
PrunedSizeOf(n) ==
    LET floor == CHOOSE k \in 0..n : 4 * k <= 3 * n /\ 3 * n < 4 * (k + 1)
    IN  IF trainer.desired_vocab_size_ > floor THEN trainer.desired_vocab_size_
        ELSE floor

\* C15: the vocabulary R that PruneSentencePieces returns for a vocabulary V
\* has |R| <= |V| and |R| >= max(desired_vocab_size, floor(shrinking_factor *
\* |V|)).
C15_PrunedSizeBounds ==
    PruneDone =>
        /\ Len(op.new_sentencepieces) <= Len(op.sentencepieces)
        /\ Len(op.new_sentencepieces) >= PrunedSizeOf(Len(op.sentencepieces))

\* C15 fails in the regime of Train: the model has more pieces than
\* desired_vocab_size and fewer pieces are returned than desired_vocab_size
C15_FewerThanDesired ==
    /\ PruneDone
    /\ Len(op.sentencepieces) > trainer.desired_vocab_size_
    /\ Len(op.new_sentencepieces) < trainer.desired_vocab_size_

-----------------------------------------------------------------------------
(* The parallel phases of RunEStep and PruneSentencePieces: the calling    *)
(* thread schedules num_threads workers on a thread::ThreadPool, worker n  *)
(* takes the sentences n, n + num_threads, ... one at a time, the          *)
(* destructor of the pool joins them, and the caller merges what they      *)
(* accumulated.  The accumulators are floats of MantissaBits bits, so that *)
(* the order of the additions shows in their sum.                          *)

\* most workers, most sentences of the corpus, bits of a float's mantissa
MaxThreads == 3
MaxThreadSentences == 4
MantissaBits == 2

RECURSIVE Pow2(_)
Pow2(e) == IF e = 0 THEN 1 ELSE 2 * Pow2(e - 1)

\* the exponent of a float of magnitude a: the least e with
\* a < 2^(MantissaBits + e)
RECURSIVE Exponent(_, _)
Exponent(a, e) == IF a < Pow2(MantissaBits + e) THEN e ELSE Exponent(a, e + 1)

\* the float nearest to x, ties to the even mantissa
FloatRound(x) ==
    LET a == IF x < 0 THEN -x ELSE x
        ulp == Pow2(Exponent(a, 0))
        q == a \div ulp
        r == a % ulp
        v == (IF 2 * r > ulp \/ (2 * r = ulp /\ q % 2 = 1) THEN q + 1 ELSE q) * ulp
    IN  IF x < 0 THEN -v ELSE v

\* x + y on floats
FloatAdd(x, y) == FloatRound(x + y)

\* the last loop of Lattice::PopulateMarginal on a lattice of one path, from
\* node k on: (*expected)[node->id] += freq * 1 for every node that is not
\* BOS or EOS
RECURSIVE PopulateMarginalFrom(_, _, _, _)
PopulateMarginalFrom(lat, freq, expected, k) ==
    IF k > Len(lat.nodes) THEN expected
    ELSE PopulateMarginalFrom(lat, freq,
             IF lat.nodes[k].length > 0 /\ lat.nodes[k].id >= 0
             THEN [expected EXCEPT ![lat.nodes[k].id + 1] = FloatAdd(@, freq)]
             ELSE expected,
             k + 1)

\* Z of a lattice of one path: the sum of the scores of its nodes
RECURSIVE PathZ(_, _)
PathZ(lat, k) ==
    IF k > Len(lat.nodes) THEN 0
    ELSE (IF lat.nodes[k].length > 0 THEN lat.nodes[k].score ELSE 0) + PathZ(lat, k + 1)

\* a worker of the pool before it is scheduled
NewWorker ==
    [pc |-> "idle", i |-> 0, seen |-> <<>>, expected |-> <<>>, objs |-> 0,
     ntokens |-> 0, vsums |-> 0, freqs |-> <<>>, inverteds |-> <<>>]

\* size zeros
Zeros(size) == [k \in 1..size |-> 0]

\* the body of the loop of a worker of RunEStep for sentence i; objs is
\* counted in units of 1 / all_sentence_freq
EStepSentence(m, sentences, i, w) ==
    LET lat == PopulateNodes(m, SetSentence(sentences[i + 1].first)).lat
        freq == sentences[i + 1].second
    IN  [w EXCEPT !.expected = PopulateMarginalFrom(lat, freq, @, 1),
                  !.ntokens = @ + Len(Viterbi(lat).results),
                  !.objs = FloatAdd(@, -(freq * PathZ(lat, 1)))]

\* freqs[n][node->id] += w.second; inverteds[n][node->id].push_back(i) over
\* the ids of a Viterbi path, from the k-th on
RECURSIVE CountViterbi(_, _, _, _, _)
CountViterbi(ids, k, freq, i, w) ==
    IF k > Len(ids) THEN w
    ELSE CountViterbi(ids, k + 1, freq, i,
             IF ids[k] >= 0
             THEN [w EXCEPT !.freqs[ids[k] + 1] = FloatAdd(@, freq),
                            !.inverteds[ids[k] + 1] = Append(@, i)]
             ELSE w)

\* the body of the loop of a worker of PruneSentencePieces for sentence i
PruneSentence(m, sentences, i, w) ==
    CountViterbi(ViterbiIds(Viterbi(PopulateNodes(m, SetSentence(sentences[i + 1].first)).lat)),
                 1, sentences[i + 1].second, i,
                 [w EXCEPT !.vsums = FloatAdd(@, sentences[i + 1].second)])

\* i += 1, the stride of a worker that takes every sentence
NextSentenceByOne(i, num_threads) == i + 1

\* i += trainer_spec_.num_threads()
NextSentence(i, num_threads) == i + num_threads

\* the order the caller would merge the workers in if it took them as they
\* finish
MergeOrderAsFinished(num_threads, finished) == [k \in 1..num_threads |-> finished[k]]

\* the order the caller merges the workers in: n = 0, 1, ...
MergeOrder(num_threads, finished) == [k \in 1..num_threads |-> k - 1]

\* the merge loop of RunEStep over the workers order[k], order[k + 1], ...
\* into acc
RECURSIVE MergeEStep(_, _, _, _)
MergeEStep(workers, order, k, acc) ==
    IF k > Len(order) THEN acc
    ELSE LET w == workers[order[k] + 1]
         IN  MergeEStep(workers, order, k + 1,
                 [objs |-> FloatAdd(acc.objs, w.objs),
                  ntokens |-> acc.ntokens + w.ntokens,
                  expected |-> [j \in 1..Len(acc.expected) |->
                                   FloatAdd(acc.expected[j], w.expected[j])]])

\* the merge loop of PruneSentencePieces over the workers order[k], ...
RECURSIVE MergePrune(_, _, _, _)
MergePrune(workers, order, k, acc) ==
    IF k > Len(order) THEN acc
    ELSE LET w == workers[order[k] + 1]
         IN  MergePrune(workers, order, k + 1,
                 [vsum |-> FloatAdd(acc.vsum, w.vsums),
                  freq |-> [j \in 1..Len(acc.freq) |-> FloatAdd(acc.freq[j], w.freqs[j])],
                  inverted |-> [j \in 1..Len(acc.freq) |->
                                   acc.inverted[j] \o w.inverteds[j]]])

\* what the caller has after the merge: expected[0], objs[0], ntokens[0] of
\* RunEStep, or vsum, freq, inverted of PruneSentencePieces
Merged(phase, size, workers, order) ==
    IF phase = "RunEStep"
    THEN MergeEStep(workers, order, 2,
                    [objs |-> workers[order[1] + 1].objs,
                     ntokens |-> workers[order[1] + 1].ntokens,
                     expected |-> workers[order[1] + 1].expected])
    ELSE MergePrune(workers, order, 1,
                    [vsum |-> 0, freq |-> Zeros(size),
                     inverted |-> [j \in 1..size |-> <<>>]])

\* the piece lists of the models the workers read: "a" and "b", or "a" alone
ThreadModels ==
    {<<[first |-> <<97>>, second |-> -1], [first |-> <<98>>, second |-> -2]>>,
     <<[first |-> <<97>>, second |-> -1]>>}

\* the corpora: 2 .. MaxThreadSentences sentences, each "a" of weight 2 or
\* "ab" of weight 3
ThreadCorpora ==
    UNION {[1..n -> {[first |-> <<97>>, second |-> 2],
                     [first |-> <<97, 98>>, second |-> 3]}] :
           n \in 2..MaxThreadSentences}

\* the calling thread, among the workers 0, 1, ...
kMainThread == -1

\* a location: a variable, or the element of a vector at an index
Loc(name, index) == [name |-> name, index |-> index]

\* an access of a thread to a location while workers are running
Access(thread, loc, write, running) ==
    [thread |-> thread, loc |-> loc, write |-> write, running |-> running]

\* the workers that have been scheduled and are not joined
Running(t) == {n \in 0..(t.num_threads - 1) : t.workers[n + 1].pc # "idle"}

InitThreads ==
    /\ \E sentencepieces \in ThreadModels : model = SetSentencePieces(sentencepieces)
    /\ \E sentences \in ThreadCorpora, num_threads \in 1..MaxThreads,
          phase \in {"RunEStep", "PruneSentencePieces"} :
          trainer = [pc |-> "schedule", phase |-> phase, sentences_ |-> sentences,
                     num_threads |-> num_threads, n |-> 0,
                     workers |-> [k \in 1..num_threads |-> NewWorker],
                     finished |-> <<>>, accesses |-> {}, merged |-> <<>>]
    /\ lattice = EmptyLattice
    /\ op = NoOp

\* one round of the loop that schedules the workers: in
\* PruneSentencePieces the caller resizes freqs[n] and inverteds[n], then
\* pool->Schedule starts worker n
DoSchedule ==
    /\ trainer.pc = "schedule" /\ trainer.n < trainer.num_threads
    /\ LET n == trainer.n
           size == Len(model.sentencepieces_)
           prune == trainer.phase = "PruneSentencePieces"
       IN  trainer' =
             [trainer EXCEPT
                !.n = n + 1,
                !.workers[n + 1] =
                    [@ EXCEPT !.pc = "start", !.i = n,
                              !.freqs = IF prune THEN Zeros(size) ELSE <<>>,
                              !.inverteds = IF prune THEN [j \in 1..size |-> <<>>]
                                            ELSE <<>>],
                !.accesses = @ \cup {Access(kMainThread, Loc("tasks_", -1), TRUE, Running(trainer))}
                               \cup (IF prune
                                     THEN {Access(kMainThread, Loc("freqs", n), TRUE, Running(trainer)),
                                           Access(kMainThread, Loc("inverteds", n), TRUE, Running(trainer))}
                                     ELSE {})]
    /\ UNCHANGED <<model, lattice, op>>

\* what worker n reads and writes in one round of its loop
WorkerAccesses(n, i) ==
    {Access(n, Loc("sentences_", i), FALSE, {}), Access(n, Loc("model", -1), FALSE, {})}
        \cup (IF trainer.phase = "RunEStep"
              THEN {Access(n, Loc("all_sentence_freq", -1), FALSE, {}),
                    Access(n, Loc("expected", n), TRUE, {}),
                    Access(n, Loc("ntokens", n), TRUE, {}),
                    Access(n, Loc("objs", n), TRUE, {})}
              ELSE {Access(n, Loc("vsums", n), TRUE, {}),
                    Access(n, Loc("freqs", n), TRUE, {}),
                    Access(n, Loc("inverteds", n), TRUE, {})})

\* the closure of worker n up to its loop: in RunEStep expected[n] is
\* resized
WorkerStart(n) ==
    /\ trainer.workers[n + 1].pc = "start"
    /\ trainer' =
         [trainer EXCEPT
            !.workers[n + 1] =
                [@ EXCEPT !.pc = "loop",
                          !.expected = IF trainer.phase = "RunEStep"
                                       THEN Zeros(Len(model.sentencepieces_)) ELSE <<>>],
            !.accesses = @ \cup (IF trainer.phase = "RunEStep"
                                 THEN {Access(n, Loc("model", -1), FALSE, {}),
                                       Access(n, Loc("expected", n), TRUE, {})}
                                 ELSE {})]
    /\ UNCHANGED <<model, lattice, op>>

\* one round of the loop of worker n, on sentence i
WorkerSentence(n) ==
    /\ trainer.workers[n + 1].pc = "loop"
    /\ trainer.workers[n + 1].i < Len(trainer.sentences_)
    /\ LET i == trainer.workers[n + 1].i
           w == [trainer.workers[n + 1] EXCEPT
                    !.i = NextSentence(i, trainer.num_threads),
                    !.seen = Append(@, i)]
       IN  trainer' =
             [trainer EXCEPT
                !.workers[n + 1] =
                    IF trainer.phase = "RunEStep"
                    THEN EStepSentence(model, trainer.sentences_, i, w)
                    ELSE PruneSentence(model, trainer.sentences_, i, w),
                !.accesses = @ \cup WorkerAccesses(n, i)]
    /\ UNCHANGED <<model, lattice, op>>

\* the loop of worker n ends and its closure returns
WorkerReturns(n) ==
    /\ trainer.workers[n + 1].pc = "loop"
    /\ trainer.workers[n + 1].i >= Len(trainer.sentences_)
    /\ trainer' = [trainer EXCEPT !.workers[n + 1].pc = "done",
                                  !.finished = Append(@, n)]
    /\ UNCHANGED <<model, lattice, op>>

\* pool.reset(nullptr) has joined every worker, and the caller merges
DoMerge ==
    /\ trainer.pc = "schedule" /\ trainer.n = trainer.num_threads
    /\ \A n \in 0..(trainer.num_threads - 1) : trainer.workers[n + 1].pc = "done"
    /\ trainer' =
         [trainer EXCEPT
            !.pc = "merged",
            !.merged = <<Merged(trainer.phase, Len(model.sentencepieces_),
                                trainer.workers,
                                MergeOrder(trainer.num_threads, trainer.finished))>>]
    /\ UNCHANGED <<model, lattice, op>>

NextThreads ==
    \/ DoSchedule
    \/ \E n \in 0..(trainer.num_threads - 1) : WorkerStart(n)
    \/ \E n \in 0..(trainer.num_threads - 1) : WorkerSentence(n)
    \/ \E n \in 0..(trainer.num_threads - 1) : WorkerReturns(n)
    \/ DoMerge

SpecThreads == InitThreads /\ [][NextThreads]_vars

-----------------------------------------------------------------------------
(* Properties of the parallel phases, under SpecThreads.                   *)

\* the caller has merged the accumulators of the workers
MergeDone == trainer.pc = "merged"

\* worker w after it ran from its sentence i to the end of its loop with
\* no other thread taking a step
RECURSIVE RunAlone(_, _, _)
RunAlone(w, i, stride) ==
    IF i >= Len(trainer.sentences_) THEN w
    ELSE RunAlone(IF trainer.phase = "RunEStep"
                  THEN EStepSentence(model, trainer.sentences_, i, w)
                  ELSE PruneSentence(model, trainer.sentences_, i, w),
                  i + stride, stride)

\* the workers after a run in which worker 0 took all its steps, then
\* worker 1, and so on
SerialWorkers ==
    [k \in 1..trainer.num_threads |->
        RunAlone([NewWorker EXCEPT
                     !.expected = IF trainer.phase = "RunEStep"
                                  THEN Zeros(Len(model.sentencepieces_)) ELSE <<>>,
                     !.freqs = IF trainer.phase = "RunEStep" THEN <<>>
                               ELSE Zeros(Len(model.sentencepieces_)),
                     !.inverteds = IF trainer.phase = "RunEStep" THEN <<>>
                                   ELSE [j \in 1..Len(model.sentencepieces_) |-> <<>>]],
                 k - 1, trainer.num_threads)]

\* C16: for a fixed num_threads, what RunEStep returns (expected, obj,
\* num_tokens) and what PruneSentencePieces has merged (vsum, freq, inverted)
\* is the same for every interleaving of the workers: the merge is made
\* when every worker has returned, the workers taken in the order of their
\* index, and the outcome is that of the run in which the workers take
\* their steps one worker after the other.
C16_MergeIsDeterministic ==
    MergeDone =>
        /\ \A n \in 0..(trainer.num_threads - 1) : trainer.workers[n + 1].pc = "done"
        /\ trainer.merged[1] =
              Merged(trainer.phase, Len(model.sentencepieces_), SerialWorkers,
                     [k \in 1..trainer.num_threads |-> k - 1])

\* C16 happens: three workers returned in another order than that of
\* their index, and the sums merged in the order of their return would
\* have been other sums
C16_Witness ==
    /\ MergeDone
    /\ trainer.num_threads = 3
    /\ trainer.finished = <<2, 1, 0>>
    /\ trainer.merged[1] #
          Merged(trainer.phase, Len(model.sentencepieces_), trainer.workers,
                 trainer.finished)

\* the accumulators of the workers: the vectors with one element a worker
Accumulators == {"expected", "objs", "ntokens", "vsums", "freqs", "inverteds"}

\* two accesses that make a data race: the same location, two threads, a
\* write among them, and no order between them (the caller's accesses made
\* before it started a worker come before all that the worker does)
Race(a, b) ==
    /\ a.loc = b.loc /\ a.thread # b.thread /\ (a.write \/ b.write)
    /\ a.thread = kMainThread => b.thread \in a.running
    /\ b.thread = kMainThread => a.thread \in b.running

\* the number of times the workers have taken sentence i
TimesSeen(i) ==
    Cardinality({<<n, k>> \in (0..(trainer.num_threads - 1)) \X (1..MaxThreadSentences + 1) :
                    /\ k <= Len(trainer.workers[n + 1].seen)
                    /\ trainer.workers[n + 1].seen[k] = i})

\* C19: in the parallel phase every sentence index is taken by one worker
\* only, the worker i mod num_threads, and once every worker has returned
\* each index has been taken exactly once; worker n writes no accumulator
\* but its own element n; and no two accesses of the threads make a data
\* race.
C19_WorkersAreDisjoint ==
    /\ \A n \in 0..(trainer.num_threads - 1) :
          \A k \in 1..Len(trainer.workers[n + 1].seen) :
              trainer.workers[n + 1].seen[k] % trainer.num_threads = n
    /\ \A i \in 0..(Len(trainer.sentences_) - 1) :
          /\ TimesSeen(i) <= 1
          /\ MergeDone => TimesSeen(i) = 1
    /\ \A a \in trainer.accesses :
          (a.thread # kMainThread /\ a.write) =>
              a.loc.name \in Accumulators /\ a.loc.index = a.thread
    /\ \A a, b \in trainer.accesses : ~Race(a, b)

\* C19 happens: two workers are in their loops at once, each has taken a
\* sentence and has one more to take
C19_Witness ==
    \E n1, n2 \in 0..(trainer.num_threads - 1) :
        /\ n1 # n2
        /\ \A n \in {n1, n2} :
              /\ trainer.workers[n + 1].pc = "loop"
              /\ Len(trainer.workers[n + 1].seen) = 1
              /\ trainer.workers[n + 1].i < Len(trainer.sentences_)

\* Sorted(candidates) of PruneSentencePieces, by the counts of its second
\* loop
SortedCandidatesCounted(m, counts) ==
    SortedNumber(PruneLoop(m, counts, Accumulate(counts.freq, 1, 0), 1,
                           [new_sentencepieces |-> <<>>, candidates |-> <<>>]).candidates)

\* Sorted(candidates) of PruneSentencePieces: the pairs of the index of a
\* piece and its loss, in the order the last loop takes them
SortedCandidates(m, sentences) ==
    SortedCandidatesCounted(m,
        ViterbiCounts(m, sentences, 1,
                      [freq |-> [k \in 1..Len(m.sentencepieces_) |-> 0],
                       inverted |-> [k \in 1..Len(m.sentencepieces_) |-> 0],
                       vsum |-> 0]))

\* the candidates c, in their order, go by score descending and, the score
\* being equal, by the bytes of their surface ascending
BySurface(sentencepieces, c) ==
    \A k \in 1..(Len(c) - 1) :
        \/ c[k].second > c[k + 1].second
        \/ /\ c[k].second = c[k + 1].second
           /\ StrLess(sentencepieces[c[k].first + 1].first,
                      sentencepieces[c[k + 1].first + 1].first)

\* C17: the trainer orders what it orders by score in descending score, and
\* entries of equal score by their surface bytes ascending; here the
\* candidates of PruneSentencePieces, ordered by their loss.
C17_TiesBySurface ==
    PruneDone => BySurface(op.sentencepieces, SortedCandidates(model, trainer.sentences_))

\* C17 fails: of two candidates of equal loss the one of the greater
\* surface comes first, and it is the one returned when one piece is kept
C17_TieByIndex ==
    /\ PruneDone
    /\ ~BySurface(op.sentencepieces, SortedCandidates(model, trainer.sentences_))
    /\ Len(op.new_sentencepieces) = 1
    /\ op.new_sentencepieces[1].first = <<98, 97>>

-----------------------------------------------------------------------------
(* Normalizer::Normalize, with the rules of a small character map: the     *)
(* walk over the input by longest match, the treatment of spaces, and the  *)
(* map norm_to_orig from the bytes of the output to offsets of the input.  *)

\* most characters of an input of Normalize
MaxNormalizeChars == 4

\* U+FFFD, what invalid UTF-8 is normalized to
kReplacementChar == <<239, 191, 189>>

\* the rules of the character map: U+3000 to a space, "A" to "ab", "B" to
\* nothing
CharsMap ==
    {[key |-> <<227, 128, 128>>, value |-> <<32>>],
     [key |-> <<65>>, value |-> <<97, 98>>],
     [key |-> <<66>>, value |-> <<>>]}

\* Normalizer::NormalizePrefix: the normalized head of input and the bytes
\* of input it stands for, by the longest rule that matches, or one
\* character as it is, or U+FFFD for one byte that is not UTF-8
NormalizePrefix(input) ==
    LET matches == {e \in CharsMap : IsPrefix(e.key, input)}
        longest == CHOOSE e \in matches : \A f \in matches : Len(f.key) <= Len(e.key)
        d == DecodeUTF8(input)
    IN  IF matches # {} THEN [first |-> longest.value, second |-> Len(longest.key)]
        ELSE IF d.c = 65533 /\ d.mblen = 1
        THEN [first |-> kReplacementChar, second |-> 1]
        ELSE [first |-> SubSeq(input, 1, d.mblen), second |-> d.mblen]

\* the input bytes that heading spaces take when remove_extra_whitespaces
\* drops them
RECURSIVE HeadingSpaces(_, _)
HeadingSpaces(input, consumed) ==
    IF consumed >= Len(input) THEN consumed
    ELSE LET p == NormalizePrefix(SubSeq(input, consumed + 1, Len(input)))
         IN  IF p.first # <<32>> THEN consumed
             ELSE HeadingSpaces(input, consumed + p.second)

\* AddWs with one offset for the three bytes of the meta symbol
AddWsOneOffset(spec, consumed, out) ==
    [normalized |-> out.normalized \o (IF spec.escape_whitespaces THEN kSpaceSymbol
                                       ELSE <<32>>),
     norm_to_orig |-> Append(out.norm_to_orig, consumed)]

\* a space symbol added to the output: the meta symbol when spaces are
\* escaped, a space when not, every byte attributed to consumed
AddWs(spec, consumed, out) ==
    IF spec.escape_whitespaces
    THEN [normalized |-> out.normalized \o kSpaceSymbol,
          norm_to_orig |-> out.norm_to_orig \o <<consumed, consumed, consumed>>]
    ELSE [normalized |-> Append(out.normalized, 32),
          norm_to_orig |-> Append(out.norm_to_orig, consumed)]

\* sp without its heading spaces
RECURSIVE WithoutHeadingSpaces(_)
WithoutHeadingSpaces(sp) ==
    IF sp # <<>> /\ Head(sp) = 32 THEN WithoutHeadingSpaces(Tail(sp)) ELSE sp

\* the bytes of a normalized prefix sp added to the output, from byte n on:
\* a space becomes the meta symbol when spaces are escaped, and every byte
\* is attributed to consumed, the first input byte of the matched span
RECURSIVE AddPrefix(_, _, _, _, _)
AddPrefix(spec, sp, n, consumed, out) ==
    IF n > Len(sp) THEN out
    ELSE AddPrefix(spec, sp, n + 1, consumed,
             IF sp[n] = 32 THEN AddWs(spec, consumed, out)
             ELSE [normalized |-> Append(out.normalized, sp[n]),
                   norm_to_orig |-> Append(out.norm_to_orig, consumed)])

\* the walk over the input from the offset consumed on
RECURSIVE NormalizeFrom(_, _, _, _, _)
NormalizeFrom(spec, input, consumed, is_prev_space, out) ==
    IF consumed >= Len(input) THEN [out |-> out, consumed |-> consumed]
    ELSE LET p == NormalizePrefix(SubSeq(input, consumed + 1, Len(input)))
             sp == IF is_prev_space THEN WithoutHeadingSpaces(p.first) ELSE p.first
         IN  NormalizeFrom(spec, input, consumed + p.second,
                 IF ~spec.remove_extra_whitespaces THEN FALSE
                 ELSE IF sp = <<>> THEN is_prev_space
                 ELSE sp[Len(sp)] = 32,
                 AddPrefix(spec, sp, 1, consumed, out))

\* s ends with suffix
EndsWith(s, suffix) ==
    Len(suffix) <= Len(s) /\ SubSeq(s, Len(s) - Len(suffix) + 1, Len(s)) = suffix

\* the tailing space symbols dropped from the output; consumed goes back to
\* the offset of the first of them
RECURSIVE WithoutTailingSpaces(_, _)
WithoutTailingSpaces(space, walked) ==
    IF ~EndsWith(walked.out.normalized, space) THEN walked
    ELSE LET length == Len(walked.out.normalized) - Len(space)
         IN  WithoutTailingSpaces(space,
                 [out |-> [normalized |-> SubSeq(walked.out.normalized, 1, length),
                           norm_to_orig |-> SubSeq(walked.out.norm_to_orig, 1, length)],
                  consumed |-> walked.out.norm_to_orig[length + 1]])

\* Normalize from the end of the walk on: tailing spaces, the space symbol
\* as a suffix, and the last entry of norm_to_orig
NormalizeEnd(spec, walked) ==
    LET suffixed == IF spec.treat_whitespace_as_suffix /\ spec.add_dummy_prefix
                    THEN AddWs(spec, walked.consumed, walked.out) ELSE walked.out
    IN  [normalized |-> suffixed.normalized,
         norm_to_orig |-> Append(suffixed.norm_to_orig, walked.consumed)]

\* Normalize from the first character that is kept on
NormalizeKept(spec, input, consumed) ==
    LET none == [normalized |-> <<>>, norm_to_orig |-> <<>>]
        walked == NormalizeFrom(spec, input, consumed, spec.remove_extra_whitespaces,
                      IF ~spec.treat_whitespace_as_suffix /\ spec.add_dummy_prefix
                      THEN AddWs(spec, consumed, none) ELSE none)
    IN  NormalizeEnd(spec,
            IF spec.remove_extra_whitespaces
            THEN WithoutTailingSpaces(
                     IF spec.escape_whitespaces THEN kSpaceSymbol ELSE <<32>>, walked)
            ELSE walked)

\* Normalizer::Normalize(input, normalized, norm_to_orig): an input that is
\* empty, or all spaces that are dropped, gives the empty output, whose map
\* has the one entry of its end
Normalize(spec, input) ==
    LET consumed == IF spec.remove_extra_whitespaces THEN HeadingSpaces(input, 0) ELSE 0
    IN  IF consumed >= Len(input)
        THEN [normalized |-> <<>>, norm_to_orig |-> <<consumed>>]
        ELSE NormalizeKept(spec, input, consumed)

\* the normalizer specs
NormalizerSpecs ==
    [add_dummy_prefix : BOOLEAN, remove_extra_whitespaces : BOOLEAN,
     escape_whitespaces : BOOLEAN, treat_whitespace_as_suffix : BOOLEAN]

\* the characters of the inputs: a space, "a", U+3000, the meta symbol, "A",
\* "B", and the byte 0x80, which is not UTF-8
NormalizeChars ==
    {<<32>>, <<97>>, <<227, 128, 128>>, kSpaceSymbol, <<65>>, <<66>>, <<128>>}

\* the strings of n characters
RECURSIVE CharStrings(_)
CharStrings(n) ==
    IF n = 0 THEN {<<>>}
    ELSE {c \o s : c \in NormalizeChars, s \in CharStrings(n - 1)}

\* the inputs of Normalize: 0 .. MaxNormalizeChars characters
NormalizeInputs == UNION {CharStrings(n) : n \in 0..MaxNormalizeChars}

NoNormalizeCall ==
    [name |-> "none", input |-> <<>>, normalized |-> <<>>, norm_to_orig |-> <<>>]

InitNormalize ==
    /\ \E spec \in NormalizerSpecs : model = [spec_ |-> spec, status_ |-> "OK"]
    /\ \E input \in NormalizeInputs : op = [NoNormalizeCall EXCEPT !.input = input]
    /\ lattice = EmptyLattice
    /\ trainer = NoTrainer

\* the state after Normalize returned r
NormalizeReturns(r) ==
    /\ op' = [op EXCEPT !.name = "Normalize", !.normalized = r.normalized,
                        !.norm_to_orig = r.norm_to_orig]
    /\ UNCHANGED <<model, lattice, trainer>>

\* normalizer_->Normalize(input, &normalized, &norm_to_orig)
DoNormalize ==
    /\ op.name = "none"
    /\ NormalizeReturns(Normalize(model.spec_, op.input))

NextNormalize == DoNormalize

SpecNormalize == InitNormalize /\ [][NextNormalize]_vars

-----------------------------------------------------------------------------
(* Properties of Normalize, under SpecNormalize.                           *)

NormalizeDone == op.name = "Normalize"

OwnLattice(i) == PopulateNodes(model, SetSentence(op.sentencepieces[i].first)).lat

\* the greatest score of a segmentation of lattice lat
BestScore(lat) ==
    CHOOSE s \in {PathScore(lat, p, 1, 0) : p \in PathsFrom(lat, 0)} :
        \A p \in PathsFrom(lat, 0) : PathScore(lat, p, 1, 0) <= s

\* every best segmentation of the surface of piece i uses two pieces or
\* more
BestUsesTwoOrMore(lat) ==
    \A p \in PathsFrom(lat, 0) : PathScore(lat, p, 1, 0) = BestScore(lat) => Len(p) >= 2

\* the nodes of the Viterbi path of sentence s of the corpus
ViterbiNodesOf(vit) == [k \in 1..Len(vit.results) |-> vit.lat.nodes[vit.results[k] + 1]]

ViterbiNodes(s) ==
    ViterbiNodesOf(Viterbi(PopulateNodes(model, SetSentence(trainer.sentences_[s].first)).lat))

\* piece i is on the Viterbi path of a sentence of the corpus: a node of the
\* path has its surface and its id
OnViterbiPath(i) ==
    \E s \in 1..Len(trainer.sentences_) :
        \E k \in 1..Len(ViterbiNodes(s)) :
            /\ ViterbiNodes(s)[k].id = i - 1
            /\ ViterbiNodes(s)[k].piece = op.sentencepieces[i].first

\* piece i of the pruned model is in the vocabulary returned
Returned(i) ==
    \E k \in 1..Len(op.new_sentencepieces) : op.new_sentencepieces[k] = op.sentencepieces[i]

\* C20: of the pieces of the model PruneSentencePieces is called on, one
\* whose best segmentation of its own surface uses two pieces or more is
\* not returned, one that is on no Viterbi path of the corpus is not
\* returned, and one whose surface has one segmentation only and that is on
\* a Viterbi path is returned.
C20_DroppedAndKept ==
    PruneDone =>
        \A i \in 1..Len(op.sentencepieces) :
            /\ BestUsesTwoOrMore(OwnLattice(i)) => ~Returned(i)
            /\ ~OnViterbiPath(i) => ~Returned(i)
            /\ (Cardinality(PathsFrom(OwnLattice(i), 0)) = 1 /\ OnViterbiPath(i))
                  => Returned(i)

\* C20 fails: a piece that is on no Viterbi path is returned, the first
\* piece of the model, whose id the nodes of unknown characters carry
C20_UnknownCountsAsFirstPiece ==
    /\ PruneDone
    /\ ~OnViterbiPath(1) /\ Returned(1)
    /\ \E s \in 1..Len(trainer.sentences_) :
          \E k \in 1..Len(ViterbiNodes(s)) :
              /\ ViterbiNodes(s)[k].id = model.unk_id_
              /\ ViterbiNodes(s)[k].piece # op.sentencepieces[1].first

-----------------------------------------------------------------------------
(* The M-step state machine: a TrainerModel with any pieces and any        *)
(* expected counts of them, then one call of RunMStep.  Counts are in      *)
(* units of 1, as RunEStep leaves them on sentences of integer weight.     *)

\* the largest expected count of a piece
MaxExpected == 2

NoMStepCall ==
    [name |-> "none", sentencepieces |-> <<>>, expected |-> <<>>,
     new_sentencepieces |-> <<>>]

InitMStep ==
    /\ \E sentencepieces \in PruneModels :
          /\ model = SetSentencePieces(sentencepieces)
          /\ \E expected \in [1..Len(sentencepieces) -> 0..MaxExpected] :
                trainer = [NewTrainer("mstep", <<>>, {}, 0, 0, 1)
                               EXCEPT !.expected = expected]
    /\ lattice = EmptyLattice
    /\ op = NoMStepCall

\* Trainer::RunMStep(model, expected)
DoRunMStep ==
    /\ trainer.pc = "mstep"
    /\ op' = [name |-> "RunMStep", sentencepieces |-> model.sentencepieces_,
              expected |-> trainer.expected,
              new_sentencepieces |-> RunMStep(model, trainer.expected)]
    /\ trainer' = [trainer EXCEPT !.pc = "mstepped"]
    /\ UNCHANGED <<model, lattice>>

NextMStep == DoRunMStep

SpecMStep == InitMStep /\ [][NextMStep]_vars

-----------------------------------------------------------------------------
(* Properties of RunMStep, under SpecMStep.                                *)

\* RunMStep has returned
MStepDone == op.name = "RunMStep"

\* the indexes of the pieces of expected count >= 0.5, ascending
KeptIndexes ==
    LET K == {i \in 1..Len(op.expected) : 2 * op.expected[i] >= 1}
    IN  CHOOSE v \in [1..Cardinality(K) -> K] :
            \A a, b \in 1..Cardinality(K) : a < b => v[a] < v[b]

-----------------------------------------------------------------------------
(* The seed state machine: a Trainer with a corpus in which substrings     *)
(* repeat, a seed_sentencepiece_size and a max_sentencepiece_length, then  *)
(* one call of MakeSeedSentencePieces.                                     *)

\* most characters of a sentence, most sentences, largest
\* seed_sentencepiece_size, largest max_sentencepiece_length
MaxSeedSentenceLen == 4
MaxSeedSentences == 2
MaxSeedSize == 4
MaxSeedPieceLength == 3

\* the sentences: the strings of a and b, and the sentence that is one
\* kUNKChar, which the loader writes for a character it does not cover
SeedSentences ==
    UNION {[1..k -> {97, 98}] : k \in 1..MaxSeedSentenceLen}
        \cup {UnicodeCharToUTF8(kUNKChar)}

\* the corpora: 1 .. MaxSeedSentences distinct sentences with a weight, one
\* of them at least with a character that is counted
SeedCorpora ==
    {c \in UNION {{v \in [1..n -> [first : SeedSentences, second : TrainFrequencies]] :
                      \A i, j \in 1..n : i < j => StrLess(v[i].first, v[j].first)} :
                  n \in 1..MaxSeedSentences} :
        RequiredChars(c) # {}}

NoSeedCall == [name |-> "none", seed_sentencepieces |-> <<>>, substrings |-> <<>>]

InitSeed ==
    /\ model = NewTrainerModel
    /\ \E sentences \in SeedCorpora, seed_sentencepiece_size \in 1..MaxSeedSize,
          max_sentencepiece_length \in 2..MaxSeedPieceLength :
           trainer = [NewTrainer("seed", sentences, RequiredChars(sentences), 0, 0, 1)
                          EXCEPT !.seed_sentencepiece_size = seed_sentencepiece_size,
                                 !.max_sentencepiece_length = max_sentencepiece_length]
    /\ lattice = EmptyLattice
    /\ op = NoSeedCall

\* the state after MakeSeedSentencePieces returned seed_sentencepieces, the
\* substrings of substr_index being numbered as in nodes
MakeSeedSentencePiecesReturns(nodes, seed_sentencepieces) ==
    /\ op' = [name |-> "MakeSeedSentencePieces",
              seed_sentencepieces |-> seed_sentencepieces,
              substrings |-> LET sorted == SortedNumber(
                                     SubstrIndex(SuffixArrayText(trainer.sentences_, 1),
                                                 nodes, trainer.max_sentencepiece_length, 1))
                             IN  [k \in 1..Len(sorted) |->
                                     UnicodeTextToUTF8(nodes[sorted[k].first])]]
    /\ trainer' = [trainer EXCEPT !.pc = "seeded"]
    /\ UNCHANGED <<model, lattice>>

\* Trainer::MakeSeedSentencePieces()
DoMakeSeedSentencePieces ==
    /\ trainer.pc = "seed"
    /\ \E nodes \in NodeNumberings(SuffixArrayText(trainer.sentences_, 1)) :
          MakeSeedSentencePiecesReturns(nodes,
              MakeSeedSentencePieces(trainer.sentences_, trainer.seed_sentencepiece_size,
                                     trainer.max_sentencepiece_length, nodes))

NextSeed == DoMakeSeedSentencePieces

SpecSeed == InitSeed /\ [][NextSeed]_vars

-----------------------------------------------------------------------------
(* Properties of MakeSeedSentencePieces, under SpecSeed.                   *)

\* MakeSeedSentencePieces has returned
SeedDone == op.name = "MakeSeedSentencePieces"

\* the distinct characters of the corpus, in UTF-8
CorpusChars ==
    UNION {{UnicodeCharToUTF8(c) : c \in {UTF8ToUnicodeText(trainer.sentences_[i].first)[k] :
                                     k \in 1..Len(UTF8ToUnicodeText(trainer.sentences_[i].first))}} :
           i \in 1..Len(trainer.sentences_)}

\* the characters that are counted: those that are not kUNKChar
CountedChars == CorpusChars \ {UnicodeCharToUTF8(kUNKChar)}

\* the seed pieces begin with the characters of chars, each once, and go on
\* with the first substrings of Sorted(substr_index), in its order and with
\* scores that do not increase
CharsThenSubstrings(chars) ==
    LET seed == op.seed_sentencepieces
        n == Cardinality(chars)
    IN  /\ Len(seed) >= n
        /\ {seed[i].first : i \in 1..n} = chars
        /\ Len(seed) - n <= Len(op.substrings)
        /\ \A k \in 1..(Len(seed) - n) : seed[n + k].first = op.substrings[k]
        /\ \A i, j \in (n + 1)..Len(seed) : i < j => seed[i].second >= seed[j].second

\* C22: MakeSeedSentencePieces emits every distinct corpus character first
\* and then substrings in descending score order, adding a substring only
\* while the seed list has fewer than seed_sentencepiece_size entries; the
\* returned list never has more than max(number of distinct characters,
\* seed_sentencepiece_size) entries.
C22_SeedCharsThenSubstrings ==
    SeedDone =>
        /\ CharsThenSubstrings(CorpusChars)
        /\ Len(op.seed_sentencepieces) > Cardinality(CorpusChars)
              => Len(op.seed_sentencepieces) <= trainer.seed_sentencepiece_size
        /\ Len(op.seed_sentencepieces)
              <= Max(Cardinality(CorpusChars), trainer.seed_sentencepiece_size)

\* C22 fails: the corpus has more distinct characters than
\* seed_sentencepiece_size and no kUNKChar, and substrings were added all
\* the same, so the list is longer than both
C22_SubstringsPastTheSize ==
    /\ SeedDone
    /\ CorpusChars = CountedChars
    /\ Cardinality(CorpusChars) > trainer.seed_sentencepiece_size
    /\ Len(op.seed_sentencepieces) > Cardinality(CorpusChars)

\* the parts of C22 that the code keeps: the counted characters come first,
\* then substrings in descending order of score, and a list that started
\* with at most seed_sentencepiece_size characters ends with at most
\* seed_sentencepiece_size pieces
SeedWithinItsSize ==
    SeedDone =>
        /\ CharsThenSubstrings(CountedChars)
        /\ Cardinality(CountedChars) <= trainer.seed_sentencepiece_size
              => Len(op.seed_sentencepieces) <= trainer.seed_sentencepiece_size

-----------------------------------------------------------------------------
(* model::FreeList<T>: chunks of chunk_size_ elements that are allocated   *)
(* once and reused.  A pointer to an element is the pair of its chunk and  *)
(* its place in the chunk; zero is the T that memset(.., 0, ..) leaves.    *)

\* FreeList(chunk_size)
NewFreeList(chunk_size) ==
    [freelist_ |-> <<>>, element_index_ |-> 0, chunk_index_ |-> 0,
     chunk_size_ |-> chunk_size]

\* FreeList::size
FreeListSize(fl) == fl.chunk_size_ * fl.chunk_index_ + fl.element_index_

\* a chunk after memset(chunk, 0, sizeof(*chunk) * chunk_size_)
ZeroChunk(fl, zero) == [k \in 1..fl.chunk_size_ |-> zero]

\* Free without its memset
FreeKeepsContents(fl, zero) ==
    [fl EXCEPT !.chunk_index_ = 0, !.element_index_ = 0]

\* FreeList::Free
Free(fl, zero) ==
    LET size == Min(fl.chunk_index_ + 1, Len(fl.freelist_))
    IN  [fl EXCEPT !.freelist_ = [i \in 1..Len(@) |->
                                     IF i <= size THEN ZeroChunk(fl, zero) ELSE @[i]],
                   !.chunk_index_ = 0, !.element_index_ = 0]

\* FreeList::Allocate: the list after it and the pointer it returns; valid
\* is FALSE when freelist_[chunk_index_] is read past the end of freelist_
Allocate(fl, zero) ==
    LET moved == IF fl.element_index_ >= fl.chunk_size_
                 THEN [fl EXCEPT !.chunk_index_ = @ + 1, !.element_index_ = 0]
                 ELSE fl
        grown == IF moved.chunk_index_ = Len(moved.freelist_)
                 THEN [moved EXCEPT !.freelist_ = Append(@, ZeroChunk(fl, zero))]
                 ELSE moved
    IN  [fl |-> [grown EXCEPT !.element_index_ = @ + 1],
         result |-> [chunk |-> grown.chunk_index_, element |-> grown.element_index_],
         valid |-> /\ grown.chunk_index_ < Len(grown.freelist_)
                   /\ grown.element_index_ < grown.chunk_size_]

\* *p
Deref(fl, p) == fl.freelist_[p.chunk + 1][p.element + 1]

\* *p = value
Assign(fl, p, value) == [fl EXCEPT !.freelist_[p.chunk + 1][p.element + 1] = value]

\* FreeList::operator[]
ElementAt(fl, index) ==
    [chunk |-> index \div fl.chunk_size_, element |-> index % fl.chunk_size_]

-----------------------------------------------------------------------------
(* The FreeList state machine: a FreeList<int> of any chunk size, and any  *)
(* calls of Allocate and Free and writes through the pointers that         *)
(* Allocate has returned.  op keeps the last call and, of the history, the *)
(* pointers returned, those written to, and whether a write went to an     *)
(* element that was not allocated since the last Free.                     *)

\* largest chunk size, most chunks, largest int written
MaxChunkSize == 2
MaxChunks == 2
MaxValue == 1

NoFreeListCall ==
    [name |-> "none", result |-> [chunk |-> 0, element |-> 0], value |-> 0,
     chunks |-> 0, returned |-> {}, written |-> {}, stale |-> FALSE]

InitFreeList ==
    /\ \E chunk_size \in 0..MaxChunkSize : model = NewFreeList(chunk_size)
    /\ lattice = EmptyLattice
    /\ op = NoFreeListCall
    /\ trainer = NoTrainer

FreeListRunning == op.name # "crashed"

\* the state after Allocate returned a.result: the caller reads *a.result.
\* A read past the end of freelist_ is undefined: the pointer is any
\* pointer and the int read through it any int, or the process ends
AllocateReturns(a) ==
    IF a.valid
    THEN /\ model' = a.fl
         /\ op' = [op EXCEPT !.name = "Allocate", !.result = a.result,
                             !.value = Deref(a.fl, a.result),
                             !.returned = @ \cup {a.result}]
    ELSE /\ model' = a.fl
         /\ \/ \E value \in 0..MaxValue :
                  op' = [op EXCEPT !.name = "Allocate", !.result = a.result,
                                   !.value = value]
            \/ op' = [op EXCEPT !.name = "crashed"]

\* l.Allocate()
DoAllocate ==
    /\ FreeListRunning
    /\ model.chunk_index_ + 1 < MaxChunks \/ model.element_index_ < model.chunk_size_
    /\ AllocateReturns(Allocate(model, 0))
    /\ UNCHANGED <<lattice, trainer>>

\* *p = value, for a pointer p that Allocate has returned
DoWrite(p, value) ==
    /\ FreeListRunning
    /\ p \in op.returned
    /\ model' = Assign(model, p, value)
    /\ op' = [op EXCEPT !.name = "Write", !.result = p, !.value = value,
                        !.written = IF value # 0 THEN @ \cup {p} ELSE @,
                        !.stale = @ \/ (p.chunk * model.chunk_size_ + p.element
                                            >= FreeListSize(model))]
    /\ UNCHANGED <<lattice, trainer>>

\* l.Free()
DoFree ==
    /\ FreeListRunning
    /\ model' = Free(model, 0)
    /\ op' = [op EXCEPT !.name = "Free", !.chunks = Len(model.freelist_)]
    /\ UNCHANGED <<lattice, trainer>>

NextFreeList ==
    \/ DoAllocate
    \/ \E chunk \in 0..(MaxChunks - 1), element \in 0..(MaxChunkSize - 1),
          value \in 0..MaxValue :
           DoWrite([chunk |-> chunk, element |-> element], value)
    \/ DoFree

SpecFreeList == InitFreeList /\ [][NextFreeList]_vars

-----------------------------------------------------------------------------
(* Properties of FreeList, under SpecFreeList.                             *)

\* C24, as stated: for a FreeList of any chunk size and any sequence of
\* Allocate calls, writes through the returned pointers, and Free calls,
\* every element returned by Allocate is zero-filled when it is returned;
\* Free sets size() to 0 and never reduces the number of chunks held.
C24_AllocateReturnsZero ==
    /\ op.name = "Allocate" => op.value = 0
    /\ op.name = "Free" => FreeListSize(model) = 0 /\ Len(model.freelist_) >= op.chunks

\* C24, amended: the same for a FreeList of chunk size 1 or more, as long
\* as every write went to an element that was allocated since the last
\* Free; this includes elements of chunks that were written before an
\* earlier Free and are reused.
C24_LiveWritesAllocateReturnsZero ==
    /\ (op.name = "Allocate" /\ model.chunk_size_ >= 1 /\ ~op.stale) => op.value = 0
    /\ op.name = "Free" => FreeListSize(model) = 0 /\ Len(model.freelist_) >= op.chunks

\* Allocate returns an element of the second chunk that was written before
\* an earlier Free, and no write was to a freed element
C24_Witness ==
    /\ op.name = "Allocate"
    /\ model.chunk_size_ >= 1
    /\ ~op.stale
    /\ op.result.chunk = 1
    /\ op.result \in op.written
    /\ op.value = 0

-----------------------------------------------------------------------------
(* unigram::Lattice on its allocator: the nodes live in the chunks of      *)
(* node_allocator_, a pointer to a node is the index of its element, and   *)
(* what NewNode returns holds what the chunk holds.                        *)

\* Lattice::Lattice(), with a node_allocator_ of chunks of chunk_size nodes
NewLattice(chunk_size) ==
    [sentence_ |-> <<>>, surface_ |-> <<>>, begin_nodes_ |-> <<>>,
     end_nodes_ |-> <<>>, node_allocator_ |-> NewFreeList(chunk_size)]

\* the nodes allocated since the last Free, in the order of allocation
AllocatedNodes(fl) ==
    [i \in 1..FreeListSize(fl) |-> Deref(fl, ElementAt(fl, i - 1))]

\* the lattice as Viterbi, NBest and PopulateNodes read it
LatticeView(lat) ==
    [sentence_ |-> lat.sentence_, surface_ |-> lat.surface_,
     nodes |-> AllocatedNodes(lat.node_allocator_),
     begin_nodes_ |-> lat.begin_nodes_, end_nodes_ |-> lat.end_nodes_]

\* the allocator after the writes that left the allocated nodes as nodes
StoreNodes(fl, nodes) ==
    [fl EXCEPT !.freelist_ =
        [c \in 1..Len(@) |->
            [e \in 1..fl.chunk_size_ |->
                IF (c - 1) * fl.chunk_size_ + e <= Len(nodes)
                THEN nodes[(c - 1) * fl.chunk_size_ + e] ELSE @[c][e]]]]

\* Lattice::NewNode: the lattice after it and the index of the node
LatticeNewNode(lat) ==
    LET a == Allocate(lat.node_allocator_, ZeroNode)
        node == [Deref(a.fl, a.result) EXCEPT !.node_id = FreeListSize(a.fl) - 1]
    IN  [lat |-> [lat EXCEPT !.node_allocator_ = Assign(a.fl, a.result, node)],
         node |-> a.result.chunk * a.fl.chunk_size_ + a.result.element]

\* Clear without node_allocator_.Free()
ClearWithoutFree(lat) ==
    [lat EXCEPT !.begin_nodes_ = <<>>, !.end_nodes_ = <<>>, !.sentence_ = <<>>,
                !.surface_ = <<>>]

\* Lattice::Clear
LatticeClear(lat) ==
    [lat EXCEPT !.begin_nodes_ = <<>>, !.end_nodes_ = <<>>, !.sentence_ = <<>>,
                !.surface_ = <<>>, !.node_allocator_ = Free(@, ZeroNode)]

\* node->field = value for the node of index node
SetNode(lat, node, changed) ==
    [lat EXCEPT !.node_allocator_ =
        Assign(@, ElementAt(@, node), changed)]

\* the node of index node
NodeAt(lat, node) == Deref(lat.node_allocator_, ElementAt(lat.node_allocator_, node))

\* Lattice::SetSentence on a lattice with a history
LatticeSetSentence(old, sentence) ==
    LET surface == SurfaceFrom(sentence, 0, <<>>)
        len == Max(0, Len(surface) - 1)
        cleared == [LatticeClear(old) EXCEPT
                       !.sentence_ = sentence, !.surface_ = surface,
                       !.begin_nodes_ = [i \in 1..(len + 1) |-> <<>>],
                       !.end_nodes_ = [i \in 1..(len + 1) |-> <<>>]]
        b == LatticeNewNode(cleared)
        bos == [SetNode(b.lat, b.node, [NodeAt(b.lat, b.node) EXCEPT !.id = -1, !.pos = 0])
                    EXCEPT !.end_nodes_[1] = Append(@, b.node)]
        e == LatticeNewNode(bos)
    IN  [SetNode(e.lat, e.node, [NodeAt(e.lat, e.node) EXCEPT !.id = -1, !.pos = len])
             EXCEPT !.begin_nodes_[len + 1] = Append(@, e.node)]

\* Lattice::Insert on the allocator, followed by the caller's
\* node->id = id; node->score = score
LatticeInsert(lat, pos, length, id, score) ==
    LET n == LatticeNewNode(lat)
        node == [NodeAt(n.lat, n.node) EXCEPT
                    !.pos = pos, !.length = length,
                    !.piece = SubSeq(lat.sentence_, Surface(lat, pos) + 1,
                                     Surface(lat, pos + length)),
                    !.id = id, !.score = score]
    IN  [SetNode(n.lat, n.node, node) EXCEPT
            !.begin_nodes_[pos + 1] = Append(@, n.node),
            !.end_nodes_[pos + length + 1] = Append(@, n.node)]

\* the calls of Insert of PopulateNodes, from its k-th on
RECURSIVE InsertAll(_, _, _)
InsertAll(lat, nodes, k) ==
    IF k > Len(nodes) THEN lat
    ELSE InsertAll(LatticeInsert(lat, nodes[k].pos, nodes[k].length, nodes[k].id,
                                 nodes[k].score),
                   nodes, k + 1)

\* Model::PopulateNodes on a lattice that SetSentence has left: its calls
\* of Insert, made on the allocator
LatticePopulateNodes(m, lat) ==
    InsertAll(lat, PopulateNodes(m, LatticeView(lat)).lat.nodes,
              FreeListSize(lat.node_allocator_) + 1)

\* Lattice::Viterbi: what it writes to the nodes
LatticeViterbi(lat) ==
    [lat EXCEPT !.node_allocator_ = StoreNodes(@, Viterbi(LatticeView(lat)).lat.nodes)]

\* Lattice::NBest: what it writes to the nodes
LatticeNBest(lat, nbest_size) ==
    [lat EXCEPT !.node_allocator_ =
        StoreNodes(@, NBest(LatticeView(lat), nbest_size).lat.nodes)]

-----------------------------------------------------------------------------
(* The lattice state machine: one Lattice, and any calls of SetSentence,   *)
(* PopulateNodes, Insert, Viterbi and NBest on it.  The chunks of the      *)
(* allocator, of 1024 nodes in the source, are of 1 .. MaxLatticeChunkSize *)
(* nodes so that a lattice of a few nodes goes over several chunks.  op    *)
(* keeps the last call and which calls were made before it.                *)

\* largest chunk size, most nodes of a lattice
MaxLatticeChunkSize == 3
MaxLatticeNodes == 5

\* the models: <unk>, a, ab and <unk>, a, ab, b
LatticeProtos ==
    {MakeProto(S, [s \in S |-> [type |-> "NORMAL", score |-> -1]]) :
        S \in {{<<97>>, <<97, 98>>}, {<<97>>, <<97, 98>>, <<98>>}}}

\* the sentences: "", "a", "ab", "bab" and a character of two bytes
LatticeSentences == {<<>>, <<97>>, <<97, 98>>, <<98, 97, 98>>, <<195, 169>>}

NoLatticeCall ==
    [name |-> "none", populated |-> FALSE, sentences |-> 0, inserted |-> FALSE,
     viterbi |-> FALSE, nbest |-> FALSE]

InitLattice ==
    /\ \E proto \in LatticeProtos : model = NewModel(proto)
    /\ \E chunk_size \in 1..MaxLatticeChunkSize : lattice = NewLattice(chunk_size)
    /\ op = NoLatticeCall
    /\ trainer = NoTrainer

\* lattice.SetSentence(sentence)
DoSetSentence(sentence) ==
    /\ lattice' = LatticeSetSentence(lattice, sentence)
    /\ op' = [op EXCEPT !.name = "SetSentence", !.populated = FALSE,
                        !.sentences = Min(@ + 1, 2)]
    /\ UNCHANGED <<model, trainer>>

\* model.PopulateNodes(&lattice), after SetSentence
DoPopulateNodes ==
    /\ op.name = "SetSentence"
    /\ lattice' = LatticePopulateNodes(model, lattice)
    /\ op' = [op EXCEPT !.name = "PopulateNodes", !.populated = TRUE]
    /\ UNCHANGED <<model, trainer>>

\* node = lattice.Insert(pos, length); node->id = id; node->score = score
DoInsert(pos, length, id, score) ==
    /\ op.name # "none"
    /\ FreeListSize(lattice.node_allocator_) < MaxLatticeNodes
    /\ pos + length <= LatticeSize(lattice)
    /\ lattice' = LatticeInsert(lattice, pos, length, id, score)
    /\ op' = [op EXCEPT !.name = "Insert", !.populated = FALSE, !.inserted = TRUE]
    /\ UNCHANGED <<model, trainer>>

\* lattice.Viterbi()
DoViterbi ==
    /\ op.name # "none"
    /\ lattice' = LatticeViterbi(lattice)
    /\ op' = [op EXCEPT !.name = "Viterbi", !.viterbi = TRUE]
    /\ UNCHANGED <<model, trainer>>

\* lattice.NBest(nbest_size)
DoNBest(nbest_size) ==
    /\ op.name # "none"
    /\ lattice' = LatticeNBest(lattice, nbest_size)
    /\ op' = [op EXCEPT !.name = "NBest", !.nbest = TRUE]
    /\ UNCHANGED <<model, trainer>>

NextLattice ==
    \/ \E sentence \in LatticeSentences : DoSetSentence(sentence)
    \/ DoPopulateNodes
    \/ \E pos \in 0..2, length \in 1..2 : DoInsert(pos, length, 1, -1)
    \/ DoViterbi
    \/ DoNBest(2)

SpecLattice == InitLattice /\ [][NextLattice]_vars

-----------------------------------------------------------------------------
(* Properties of the Lattice, under SpecLattice.                           *)

\* the node that SetSentence leaves for BOS (pos 0) and EOS (pos len)
BoundaryNode(node_id, pos) ==
    [ZeroNode EXCEPT !.node_id = node_id, !.id = -1, !.pos = pos]

\* C23: after SetSentence(s) on a lattice with any prior history (earlier
\* sentences, inserted nodes, Viterbi or NBest runs), the lattice holds
\* exactly two nodes, BOS and EOS, with node ids 0 and 1 and zeroed scores;
\* and after any following PopulateNodes, BOS is still the only element of
\* end_nodes[0] and EOS the only element of begin_nodes[len], both with
\* id -1.
C23_SetSentenceResets ==
    LET len == LatticeSize(lattice)
        nodes == AllocatedNodes(lattice.node_allocator_)
    IN  /\ op.name = "SetSentence" =>
              /\ nodes = <<BoundaryNode(0, 0), BoundaryNode(1, len)>>
              /\ lattice.end_nodes_ = [i \in 1..(len + 1) |-> IF i = 1 THEN <<0>> ELSE <<>>]
              /\ lattice.begin_nodes_ =
                     [i \in 1..(len + 1) |-> IF i = len + 1 THEN <<1>> ELSE <<>>]
        /\ op.populated =>
              /\ lattice.end_nodes_[1] = <<0>>
              /\ lattice.begin_nodes_[len + 1] = <<1>>
              /\ nodes[1].id = -1 /\ nodes[1].length = 0
              /\ nodes[2].id = -1 /\ nodes[2].length = 0

\* PopulateNodes has filled a lattice whose allocator holds two chunks or
\* more that earlier sentences, inserted nodes, Viterbi and NBest wrote to
C23_Witness ==
    /\ op.name = "PopulateNodes"
    /\ op.sentences = 2 /\ op.inserted /\ op.viterbi /\ op.nbest
    /\ Len(lattice.node_allocator_.freelist_) >= 2
    /\ FreeListSize(lattice.node_allocator_) > 2

-----------------------------------------------------------------------------
(* Properties of desired_vocab_size_, under SpecTrain.                     *)

\* Train is past the assignment to desired_vocab_size_
DesiredSet == trainer.pc \in {"estep", "mstep", "check", "prune", "finalize"}

\* the whole part of 1.1 * vocab_size, and 1.1 * vocab_size rounded up
Floor11(vocab_size) ==
    CHOOSE k \in 0..(2 * vocab_size) : 10 * k <= 11 * vocab_size /\ 11 * vocab_size < 10 * (k + 1)
Ceil11(vocab_size) ==
    CHOOSE k \in 0..(2 * vocab_size) : 10 * (k - 1) < 11 * vocab_size /\ 11 * vocab_size <= 10 * k

\* the loop of Train stops when the model has at most size pieces, and
\* PruneSentencePieces is called when it has more
StopsAt(size) ==
    /\ trainer.pc = "finalize" => Len(model.sentencepieces_) <= size
    /\ trainer.pc = "prune" => Len(model.sentencepieces_) > size

-----------------------------------------------------------------------------
(* Properties of trie_results_size_, under Spec.                           *)

\* Encode or NBestEncode was called with a sentence on a model with OK
\* status, so that PopulateNodes ran
PopulateNodesRan ==
    op.name \in {"Encode", "NBestEncode"} /\ model.status_ = "OK" /\ op.input # <<>>

\* the number of pieces of the trie that are prefixes of the text that is
\* left at character pos of the sentence
PrefixesAt(pos) ==
    Cardinality({e \in model.trie_ :
                    IsPrefix(e.key, SubSeq(op.input, Surface(SetSentence(op.input), pos) + 1,
                                           Len(op.input)))})

\* C26: for every model with OK status, every sentence and every position
\* in it, the number of vocabulary pieces that are prefixes of the
\* remaining text is at most trie_results_size_ (the maximum number of
\* pieces that are prefixes of any single vocabulary surface), so the
\* CHECK_LT(num_nodes, trie_results.size()) in PopulateNodes never fails.
C26_TrieResultsFit ==
    PopulateNodesRan =>
        /\ \A pos \in 0..(LatticeSize(SetSentence(op.input)) - 1) :
              PrefixesAt(pos) <= model.trie_results_size_
        /\ op.ok

\* PopulateNodes ran on a sentence that is not a piece and at one of its
\* positions as many pieces are prefixes as trie_results_size_ allows, two
\* or more
C26_Witness ==
    /\ PopulateNodesRan
    /\ op.ok
    /\ model.trie_results_size_ >= 2
    /\ ~ContainsKey(model.trie_, op.input)
    /\ \E pos \in 0..(LatticeSize(SetSentence(op.input)) - 1) :
          PrefixesAt(pos) = model.trie_results_size_

-----------------------------------------------------------------------------
(* bpe::Trainer::EncodePos and DecodePos.  A uint64 is the sequence of its *)
(* four 16-bit words, the most significant first; an int of 32 bits that   *)
(* is made of two such words is the record of its sign bit and the words.  *)

\* the largest l and r that EncodePos takes
kuint16max == 65535

\* l << 16 | r on ints of 32 bits, for 0 <= l, r <= kuint16max.  For
\* l >= 32768 the shift goes past the largest int: the result is the int
\* with these bits, which is negative, where the shift is defined as on the
\* bits, and the standard leaves it undefined, so a build may as well keep
\* the value
ShiftedOr(l, r) ==
    IF l < 32768 THEN {[negative |-> FALSE, high |-> l, low |-> r]}
    ELSE {[negative |-> TRUE, high |-> l, low |-> r],
          [negative |-> FALSE, high |-> l, low |-> r]}

\* word | the upper words of an int converted to uint64, which are all ones
\* for a negative int
OrExtended(word, int) == IF int.negative THEN kuint16max ELSE word

\* EncodePos after its CHECKs, int being what l << 16 | r gave:
\* static_cast<uint64>(sid) << 32 | int
EncodePos(sid, int) ==
    <<OrExtended(sid \div 65536, int), OrExtended(sid % 65536, int), int.high, int.low>>

\* the int that two words convert to
ToInt(high, low) ==
    IF high >= 32768 THEN (high - 65536) * 65536 + low ELSE high * 65536 + low

\* DecodePos
DecodePos(n) == [sid |-> ToInt(n[1], n[2]), left |-> n[3], right |-> n[4]]

-----------------------------------------------------------------------------
(* The position state machine: calls of EncodePos, of which the last two   *)
(* are kept, and of DecodePos on what the last call returned.              *)

\* the sentence ids and the symbol indexes the calls are made with
PosSids == {0, 1, 2, 65536, 2147483647}
PosIndexes == {-1, 0, 1, 32767, 32768, 65535, 65536}

\* most calls of EncodePos
MaxPosCalls == 2

NoEncoded == [sid |-> 0, l |-> 0, r |-> 0, n |-> <<0, 0, 0, 0>>]

NoPosCall ==
    [name |-> "none", count |-> 0, cur |-> NoEncoded, prev |-> NoEncoded,
     position |-> [sid |-> 0, left |-> 0, right |-> 0]]

InitPos ==
    /\ model = NewTrainerModel
    /\ lattice = EmptyLattice
    /\ op = NoPosCall
    /\ trainer = NoTrainer

\* EncodePos(sid, l, r); a CHECK that fails ends the process
DoEncodePos(sid, l, r) ==
    /\ op.name # "aborted"
    /\ op.count < MaxPosCalls
    /\ IF l >= 0 /\ r >= 0 /\ l <= kuint16max /\ r <= kuint16max
       THEN \E int \in ShiftedOr(l, r) :
               op' = [op EXCEPT !.name = "EncodePos", !.count = @ + 1,
                                !.prev = op.cur,
                                !.cur = [sid |-> sid, l |-> l, r |-> r,
                                         n |-> EncodePos(sid, int)]]
       ELSE op' = [op EXCEPT !.name = "aborted"]
    /\ UNCHANGED <<model, lattice, trainer>>

\* DecodePos(n) for the n that the last EncodePos returned
DoDecodePos ==
    /\ op.name = "EncodePos"
    /\ op' = [op EXCEPT !.name = "DecodePos", !.position = DecodePos(op.cur.n)]
    /\ UNCHANGED <<model, lattice, trainer>>

NextPos ==
    \/ \E sid \in PosSids, l \in PosIndexes, r \in PosIndexes : DoEncodePos(sid, l, r)
    \/ DoDecodePos

SpecPos == InitPos /\ [][NextPos]_vars

-----------------------------------------------------------------------------
(* Properties of EncodePos and DecodePos, under SpecPos.                   *)

\* a < b for two uint64
Less64(a, b) ==
    \E k \in 1..4 : a[k] < b[k] /\ \A j \in 1..(k - 1) : a[j] = b[j]

\* (sid, l, r) of a is before that of b in the lexicographic order
PosBefore(a, b) ==
    \/ a.sid < b.sid
    \/ a.sid = b.sid /\ a.l < b.l
    \/ a.sid = b.sid /\ a.l = b.l /\ a.r < b.r

\* DecodePos gave back what the last EncodePos was called with
RoundTrip ==
    op.position = [sid |-> op.cur.sid, left |-> op.cur.l, right |-> op.cur.r]

\* C27: for every sid >= 0 and all l, r with 0 <= l, r <= 65535,
\* DecodePos(EncodePos(sid, l, r)) returns (sid, l, r), and EncodePos is
\* strictly increasing with respect to the lexicographic order of
\* (sid, l, r).
C27_PosRoundTripAndOrder ==
    /\ op.name = "DecodePos" => RoundTrip
    /\ (op.name = "EncodePos" /\ op.count = 2 /\ PosBefore(op.prev, op.cur))
          => Less64(op.prev.n, op.cur.n)

\* C27 fails: with l of 32768 or more DecodePos returns another sid, and
\* such a position was encoded to more than a position of a later sentence
C27_SidLost ==
    \/ op.name = "DecodePos" /\ op.cur.l >= 32768 /\ op.position.sid # op.cur.sid
    \/ /\ op.name = "EncodePos" /\ op.count = 2
       /\ op.prev.l >= 32768 /\ op.prev.sid < op.cur.sid
       /\ Less64(op.cur.n, op.prev.n)

\* what the code keeps: C27 for l below 32768, and l and r always
PosRoundTripBelow32768 ==
    /\ op.name = "DecodePos" =>
          /\ op.position.left = op.cur.l /\ op.position.right = op.cur.r
          /\ op.cur.l < 32768 => RoundTrip
    /\ (op.name = "EncodePos" /\ op.count = 2 /\ PosBefore(op.prev, op.cur)
           /\ op.prev.l < 32768 /\ op.cur.l < 32768)
          => Less64(op.prev.n, op.cur.n)

-----------------------------------------------------------------------------
(* The vocabulary calls state machine: a processor on a model of any type, *)
(* whatever its status, and calls of SetVocabulary and ResetVocabulary.    *)
(* model holds the model type of the trainer_spec of its proto.            *)

\* most pieces of a proto, and most calls
MaxRestrictPieces == 3
MaxRestrictCalls == 2

\* TrainerSpec::ModelType
ModelTypes == {"UNIGRAM", "BPE", "WORD", "CHAR"}

\* the surfaces of the pieces: "a", "ab", "ba" and U+00E9
RestrictSurfaces == {<<97>>, <<97, 98>>, <<98, 97>>, <<195, 169>>}

\* protos of 1 .. MaxRestrictPieces pieces of any type
RestrictProtos ==
    UNION {[1..n -> [piece : RestrictSurfaces, score : {-1}, type : Types]] :
              n \in 1..MaxRestrictPieces}

\* the vocabularies given to SetVocabulary
RestrictVocabs == SUBSET {<<97>>, <<97, 98>>}

NoRestrictCall ==
    [name |-> "none", ok |-> TRUE, vocab |-> {}, initial |-> <<>>, calls |-> 0]

InitRestrict ==
    /\ \E proto \in RestrictProtos, type \in ModelTypes :
          /\ model = NewModel(proto) @@ [model_type |-> type]
          /\ op = [NoRestrictCall EXCEPT !.initial = proto]
    /\ lattice = EmptyLattice
    /\ trainer = NoTrainer

\* the state after a call that left the pieces proto and returned ok
RestrictReturns(name, valid_vocab, proto, ok) ==
    /\ model' = [model EXCEPT !.model_proto_ = proto]
    /\ op' = [op EXCEPT !.name = name, !.ok = ok, !.vocab = valid_vocab,
                        !.calls = @ + 1]
    /\ UNCHANGED <<lattice, trainer>>

\* SentencePieceProcessor::SetVocabulary(valid_vocab) on any processor with
\* a model
SetVocabularyOnAny(valid_vocab) ==
    /\ op.calls < MaxRestrictCalls
    /\ IF model.status_ # "OK" \/ model.model_type \notin {"UNIGRAM", "BPE"}
       THEN RestrictReturns("SetVocabulary", valid_vocab, model.model_proto_, FALSE)
       ELSE RestrictReturns("SetVocabulary", valid_vocab,
                            SetVocabulary(model.model_proto_, valid_vocab), TRUE)

\* SentencePieceProcessor::ResetVocabulary() on any processor with a model
ResetVocabularyOnAny ==
    /\ op.calls < MaxRestrictCalls
    /\ IF model.status_ # "OK"
       THEN RestrictReturns("ResetVocabulary", {}, model.model_proto_, FALSE)
       ELSE RestrictReturns("ResetVocabulary", {},
                            ResetVocabulary(model.model_proto_), TRUE)

NextRestrict ==
    \/ \E v \in RestrictVocabs : SetVocabularyOnAny(v)
    \/ ResetVocabularyOnAny

SpecRestrict == InitRestrict /\ [][NextRestrict]_vars

-----------------------------------------------------------------------------
(* Properties of the vocabulary calls, under SpecRestrict.                 *)

\* the bytes are one character in UTF-8, of one or two bytes
OneUTF8Character(s) ==
    \/ Len(s) = 1 /\ s[1] < 128
    \/ Len(s) = 2 /\ s[1] \in 194..223 /\ s[2] \in 128..191

\* the calls leave everything but the types of the NORMAL and UNUSED
\* pieces, which stay NORMAL or UNUSED
FrameKept ==
    /\ [model EXCEPT !.model_proto_ = op.initial] =
          NewModel(op.initial) @@ [model_type |-> model.model_type]
    /\ Len(model.model_proto_) = Len(op.initial)
    /\ \A i \in 1..Len(op.initial) :
          /\ model.model_proto_[i].piece = op.initial[i].piece
          /\ model.model_proto_[i].score = op.initial[i].score
          /\ op.initial[i].type \in {"CONTROL", "UNKNOWN", "USER_DEFINED"}
                => model.model_proto_[i].type = op.initial[i].type
          /\ op.initial[i].type \in {"NORMAL", "UNUSED"}
                => model.model_proto_[i].type \in {"NORMAL", "UNUSED"}

\* the NORMAL pieces among those that were NORMAL or UNUSED are those in
\* the vocabulary of the last call and the single characters
NormalIffInVocabulary ==
    \A i \in 1..Len(op.initial) :
        op.initial[i].type \in {"NORMAL", "UNUSED"} =>
            (model.model_proto_[i].type = "NORMAL"
                <=> \/ op.initial[i].piece \in op.vocab
                    \/ OneUTF8Character(op.initial[i].piece))

NoneUnused == \A i \in 1..Len(model.model_proto_) : model.model_proto_[i].type # "UNUSED"

\* C30: for every sequence of SetVocabulary and ResetVocabulary calls, the
\* type of every CONTROL, UNKNOWN and USER_DEFINED piece and the surface,
\* score and id of every piece are unchanged; after SetVocabulary(V) a piece
\* that was NORMAL or UNUSED is NORMAL if and only if its surface is in V or
\* is a single UTF-8 character, independently of earlier calls; and after
\* ResetVocabulary no piece is UNUSED.
C30_VocabularyCallsFrame ==
    /\ FrameKept
    /\ op.name = "SetVocabulary" => NormalIffInVocabulary
    /\ op.name = "ResetVocabulary" => NoneUnused

\* C30 for the calls that return OK: the frame holds after every call, and
\* a SetVocabulary(V) or ResetVocabulary that returned OK, which needs a
\* processor whose status is OK and, for SetVocabulary, a unigram or BPE
\* model, leaves the types as C30 says
C30_ReturnedOkFrame ==
    /\ FrameKept
    /\ (op.name = "SetVocabulary" /\ op.ok) => NormalIffInVocabulary
    /\ (op.name = "ResetVocabulary" /\ op.ok) => NoneUnused

\* C30 happens: the second call, a SetVocabulary that returned OK, has made
\* a piece of the proto UNUSED and "ab", UNUSED in the proto, NORMAL
C30_Witness ==
    /\ op.name = "SetVocabulary" /\ op.ok /\ op.calls = 2
    /\ \E i, j \in 1..Len(op.initial) :
          /\ op.initial[i].type = "UNUSED" /\ op.initial[j].type = "NORMAL"
          /\ model.model_proto_[i].type = "NORMAL"
          /\ model.model_proto_[j].type = "UNUSED"
          /\ op.initial[i].piece = <<97, 98>>

====
